---- MODULE Spec2Model ----
(***************************************************************************)
(* Route optimization and rerouting engine of the transport application.   *)
(*                                                                         *)
(* optimizeRoutes (services/routeService.js) and the                       *)
(* RouteOptimizationService class (optimizeDeliverySequence,               *)
(* updateRouteWithRealTimeData, checkIfReroutingNeeded) are modelled as    *)
(* processes whose steps are the code between two awaits.  The database,   *)
(* the Redis cache, the external solver, the traffic and weather providers *)
(* and Kafka are the environment.                                          *)
(***************************************************************************)
EXTENDS Integers, Sequences, FiniteSets, TLC

\* ------------------------------------------------------------------ bounds

\* Number of concurrent optimizeRoutes invocations.
NumCalls == 2
\* Number of updateRouteWithRealTimeData invocations of the monitor.
NumUpdates == 1
\* Number of times the monitor evaluates again a route it has patched.
MaxRepeats == 1
\* The wall clock stops advancing after MaxTicks ticks.
MaxTicks == 2
\* Seconds of wall clock per tick.
TickSeconds == 150
\* Number of requests the shipment and vehicle controllers serve.
MaxRequests == 3
\* Number of WebSocket connections the drones open.
MaxSockets == 3

\* ------------------------------------------------------- program constants

\* redis.set(cacheKey, ..., 'EX', 300)
CacheTTL == 300

None == [none |-> TRUE]

\* ------------------------------------------------------------------ state

Calls == 1..NumCalls

VARIABLES
    now,        \* wall clock, seconds
    cache,      \* Redis: set of [key, value, expiresAt]
    published,  \* Kafka topic route_optimizations: the calls that published
    pc,         \* position of each invocation
    req,        \* which function was invoked, with its arguments
    local,      \* local variables of the invocation
    outcome,    \* what the caller got (result or error)
    hist,       \* per invocation: cache read, solver reply, cache write seen
    writes,     \* the successful cache writes, in order
    db,         \* MongoDB: the shipments, vehicles and drone commands
    http,       \* the controller requests served, the last with its response
    droneConnections,  \* droneService's Map: drone id -> connection
    sockets     \* the WebSocket connections made so far: drone and state

\* What the routing functions never touch.
store == <<db, http, droneConnections, sockets>>

vars == <<now, cache, published, pc, req, local, outcome, hist, writes, db,
          http, droneConnections, sockets>>

\* ---------------------------------------------------------------- helpers

RECURSIVE SeqOfSet(_)
\* The members of a set of integers in ascending order (the collection's
\* natural order for documents inserted with ascending ids).
SeqOfSet(S) ==
    IF S = {} THEN <<>>
    ELSE LET m == CHOOSE x \in S : \A y \in S : x <= y
         IN  <<m>> \o SeqOfSet(S \ {m})

Range(s) == {s[i] : i \in 1..Len(s)}

\* Math.max(...xs) over a non-empty set.
MaxOf(S) == CHOOSE x \in S : \A y \in S : y <= x

\* ----------------------------------------------------------------- data

\* The shipments collection.  Latitudes are in hundredths of a degree
\* (origin[1] and destination[1] of the GeoJSON [lon, lat] pairs).
ShipmentIds == {1, 2, 3, 4, 5, 6}

ShipmentDoc(id) ==
    CASE id = 1 -> [id |-> 1, weight |-> 100, volume |-> 1, originLat |-> 0,
                    destLat |-> 100, temperatureControlled |-> FALSE,
                    securityLevel |-> "standard"]
      [] id = 2 -> [id |-> 2, weight |-> 200, volume |-> 2, originLat |-> 1,
                    destLat |-> 102, temperatureControlled |-> FALSE,
                    securityLevel |-> "standard"]
      [] id = 3 -> [id |-> 3, weight |-> 300, volume |-> 3, originLat |-> 500,
                    destLat |-> 600, temperatureControlled |-> FALSE,
                    securityLevel |-> "high"]
      [] id = 4 -> [id |-> 4, weight |-> 9000, volume |-> 4, originLat |-> 500,
                    destLat |-> 700, temperatureControlled |-> TRUE,
                    securityLevel |-> "restricted"]
      [] id = 5 -> [id |-> 5, weight |-> 450, volume |-> 4, originLat |-> 6,
                    destLat |-> 100, temperatureControlled |-> FALSE,
                    securityLevel |-> "standard"]
      [] id = 6 -> [id |-> 6, weight |-> 450, volume |-> 1, originLat |-> 0,
                    destLat |-> 100, temperatureControlled |-> FALSE,
                    securityLevel |-> "standard"]

\* The vehicles collection, in natural order.
VehicleIds == {1, 2, 3}

VehicleDoc(id) ==
    CASE id = 1 -> [id |-> 1, status |-> "idle", weight |-> 500, volume |-> 5,
                    temperatureControl |-> FALSE, securityFeatures |-> {}]
      [] id = 2 -> [id |-> 2, status |-> "idle", weight |-> 1000, volume |-> 10,
                    temperatureControl |-> FALSE,
                    securityFeatures |-> {"gps-tracking"}]
      [] id = 3 -> [id |-> 3, status |-> "in-transit", weight |-> 20000,
                    volume |-> 50, temperatureControl |-> TRUE,
                    securityFeatures |-> {"gps-tracking", "alarm"}]

\* The (shipmentIds, parameters) a caller may pass; 9 is the id of no
\* shipment, and shipment 4 is one no available vehicle can carry.
Requests ==
    {[shipmentIds |-> {9}, parameters |-> [prioritize |-> "time"]],
     [shipmentIds |-> {4}, parameters |-> [prioritize |-> "time"]],
     [shipmentIds |-> {1, 2}, parameters |-> [prioritize |-> "time"]],
     [shipmentIds |-> {1, 2}, parameters |-> [prioritize |-> "fuel"]],
     [shipmentIds |-> {1, 2, 3}, parameters |-> [prioritize |-> "time"]]}

\* ------------------------------------------------ optimizeRoutes, pure part

\* Shipment.find({ _id: { $in: shipmentIds } })
FindShipments(ids) ==
    SeqOfSet({i \in ShipmentIds : i \in ids})

SecurityRank(level) ==
    CASE level = "standard" -> 1
      [] level = "high" -> 2
      [] level = "restricted" -> 3
      [] level = "classified" -> 4
      [] OTHER -> 1

\* findSuitableVehicles: the idle vehicles whose capacity covers the
\* heaviest and the bulkiest single shipment, with the required features.
FindSuitableVehicles(shipments) ==
    LET docs == {ShipmentDoc(shipments[i]) : i \in 1..Len(shipments)}
        requiresTemperatureControl == \E s \in docs : s.temperatureControlled
        securityLevel == MaxOf({SecurityRank(s.securityLevel) : s \in docs})
        maxWeight == MaxOf({s.weight : s \in docs})
        maxVolume == MaxOf({s.volume : s \in docs})
        ok(v) == /\ v.status = "idle"
                 /\ v.weight >= maxWeight
                 /\ v.volume >= maxVolume
                 /\ (requiresTemperatureControl => v.temperatureControl)
                 /\ (securityLevel >= 3 =>
                        v.securityFeatures \cap {"gps-tracking", "alarm"} # {})
    IN  SeqOfSet({i \in VehicleIds : ok(VehicleDoc(i))})

\* The optimization payload sent to the solver and serialized into the key.
OptimizationPayload(shipments, vehicles, parameters) ==
    [shipments |-> [i \in 1..Len(shipments) |->
                      LET s == ShipmentDoc(shipments[i])
                      IN  [id |-> s.id, originLat |-> s.originLat,
                           destLat |-> s.destLat, weight |-> s.weight,
                           volume |-> s.volume]],
     vehicles |-> [i \in 1..Len(vehicles) |->
                      LET v == VehicleDoc(vehicles[i])
                      IN  [id |-> v.id, weightCapacity |-> v.weight,
                           volumeCapacity |-> v.volume]],
     parameters |-> parameters]

\* `route_opt_${JSON.stringify(optimizationPayload)}`
RouteOptCacheKey(payload) == [prefix |-> "route_opt_", body |-> payload]

\* ------------------------------------------------------ fallback optimizer

\* Number.prototype.toFixed(1) of a latitude given in hundredths of a
\* degree: the nearest tenth, in tenths of a degree.
ToFixed1(h) == IF h >= 0 THEN (h + 5) \div 10 ELSE -((5 - h) \div 10)

\* `${origin[1].toFixed(1)}_${destination[1].toFixed(1)}`
GroupKey(shipment) == <<ToFixed1(shipment.originLat), ToFixed1(shipment.destLat)>>

RECURSIVE GroupFold(_, _, _)
\* The forEach of groupShipmentsByProximity from shipment i on; groups is
\* the object built so far, as the sequence of its (key, members) entries
\* in insertion order.
GroupFold(shipments, i, groups) ==
    IF i > Len(shipments) THEN groups
    ELSE LET s == shipments[i]
             at == {g \in 1..Len(groups) : groups[g].key = GroupKey(s)}
         IN  IF at = {}
             THEN GroupFold(shipments, i + 1,
                            Append(groups, [key |-> GroupKey(s), members |-> <<s>>]))
             ELSE LET g == CHOOSE x \in at : TRUE
                  IN  GroupFold(shipments, i + 1,
                                [groups EXCEPT ![g].members = Append(@, s)])

\* groupShipmentsByProximity: Object.values(groups).
GroupShipmentsByProximity(shipments) ==
    LET groups == GroupFold(shipments, 1, <<>>)
    IN  [g \in 1..Len(groups) |-> groups[g].members]

RECURSIVE InsertByCapacity(_, _)
\* v inserted into a sequence sorted by weightCapacity descending, after
\* the entries of equal capacity (Array.prototype.sort is stable).
InsertByCapacity(sorted, v) ==
    IF sorted = <<>> THEN <<v>>
    ELSE IF Head(sorted).weightCapacity >= v.weightCapacity
         THEN <<Head(sorted)>> \o InsertByCapacity(Tail(sorted), v)
         ELSE <<v>> \o sorted

\* The vehicles in the order given.
SortVehiclesUnsorted(vehicles) == vehicles

RECURSIVE SortVehicles(_)
\* [...vehicles].sort((a, b) => b.weightCapacity - a.weightCapacity)
SortVehicles(vehicles) ==
    IF vehicles = <<>> THEN <<>>
    ELSE InsertByCapacity(SortVehicles(SubSeq(vehicles, 1, Len(vehicles) - 1)),
                          vehicles[Len(vehicles)])

\* Only the first of the arrays.
FlattenHead(ss) == IF ss = <<>> THEN <<>> ELSE Head(ss)

RECURSIVE Flatten(_)
Flatten(ss) == IF ss = <<>> THEN <<>> ELSE Head(ss) \o Flatten(Tail(ss))

Min(a, b) == IF a <= b THEN a ELSE b

\* performInternalOptimization: the i-th group goes to the i-th vehicle of
\* the capacity order; the groups beyond the vehicles are unassigned.
PerformInternalOptimization(payload) ==
    LET sortedVehicles == SortVehicles(payload.vehicles)
        shipmentGroups == GroupShipmentsByProximity(payload.shipments)
        ids(group) == [i \in 1..Len(group) |-> group[i].id]
        n == Min(Len(shipmentGroups), Len(sortedVehicles))
        routes == [g \in 1..n |->
                     [vehicleId |-> sortedVehicles[g].id,
                      shipments |-> ids(shipmentGroups[g])]]
        rest == [g \in 1..(Len(shipmentGroups) - n) |-> ids(shipmentGroups[n + g])]
    IN  [routes |-> routes,
         unassignedShipments |-> Flatten(rest),
         metrics |-> [vehicleCount |-> Len(routes), routeCount |-> Len(routes)]]

\* -------------------------------------------------------- external solver

\* The responses the optimization service may give for a payload: every
\* shipment on the first vehicle, or every shipment on the last vehicle in
\* reverse order (response.data is whatever the service computed).
SolverResponses(payload) ==
    LET ids == [i \in 1..Len(payload.shipments) |-> payload.shipments[i].id]
        rev == [i \in 1..Len(ids) |-> ids[Len(ids) + 1 - i]]
        one(v, order) ==
            [routes |-> <<[vehicleId |-> v.id, shipments |-> order]>>,
             unassignedShipments |-> <<>>,
             metrics |-> [vehicleCount |-> 1, routeCount |-> 1]]
    IN  IF Len(payload.vehicles) = 0
        THEN {[routes |-> <<>>, unassignedShipments |-> ids,
               metrics |-> [vehicleCount |-> 0, routeCount |-> 0]]}
        ELSE {one(payload.vehicles[1], ids),
              one(payload.vehicles[Len(payload.vehicles)], rev)}

\* ------------------------------------------------------------ rationals

RECURSIVE Gcd(_, _)
Gcd(a, b) == IF b = 0 THEN a ELSE Gcd(b, a % b)

Abs(x) == IF x < 0 THEN -x ELSE x

\* The JavaScript number n/d, in lowest terms with d > 0.
Rat(n, d) ==
    LET g == Gcd(Abs(n), Abs(d))
        s == IF d < 0 THEN -1 ELSE 1
    IN  [n |-> s * (n \div g), d |-> s * (d \div g)]

RatAdd(x, y) ==
    LET g == Gcd(x.d, y.d)
    IN  Rat(x.n * (y.d \div g) + y.n * (x.d \div g), x.d * (y.d \div g))

RatSub(x, y) == RatAdd(x, [n |-> -y.n, d |-> y.d])

\* x * k / m for integers k, m > 0.
RatScale(x, k, m) ==
    LET g1 == Gcd(Abs(x.n), m)
        g2 == Gcd(k, x.d)
    IN  Rat((x.n \div g1) * (k \div g2), (x.d \div g2) * (m \div g1))

\* Math.floor and Math.round of a number.
Floor(x) == IF x.n >= 0 THEN x.n \div x.d ELSE -((-x.n + x.d - 1) \div x.d)

Round(x) == Floor(RatAdd(x, [n |-> 1, d |-> 2]))

RECURSIVE RatSum(_)
RatSum(xs) == IF xs = <<>> THEN [n |-> 0, d |-> 1]
              ELSE RatAdd(Head(xs), RatSum(Tail(xs)))

\* ------------------------------------------- RouteOptimizationService, pure

\* A delivery stop as optimizeDeliverySequence receives it.
Stop(i) == [id |-> i, serviceTime |-> 5 + i, priority |-> "normal"]

\* The stop lists of direct optimizeDeliverySequence calls.
StopLists == {<<Stop(1), Stop(2)>>, <<Stop(1), Stop(2), Stop(3)>>}

\* The options of a call that passes none (options = {}).
\* An absent field is "undefined" (departureTime: -1).
NoOptions == [departureTime |-> -1, vehicleType |-> "undefined",
              securityLevel |-> "undefined"]

\* Math.ceil of a number.
Ceil(x) == -Floor([n |-> -x.n, d |-> x.d])

\* stop[f], or the default when the stop has no such field (undefined).
Get(stop, f, default) == IF f \in DOMAIN stop THEN stop[f] ELSE default

\* calculateServiceTime, in minutes; weight in kg, volume in tenths of a
\* cubic metre.  A field that is 0 or absent adds nothing.
CalculateServiceTime(stop) ==
    LET weight == Get(stop, "weight", 0)
        volume == Get(stop, "volume", 0)
    IN  5
        + (IF weight # 0 THEN Ceil(Rat(weight, 10)) ELSE 0)
        + (IF volume # 0 THEN Ceil(Rat(volume, 5)) ELSE 0)
        + (IF Get(stop, "requiresSignature", FALSE) THEN 3 ELSE 0)
        + (IF \/ Get(stop, "securityLevel", "undefined") = "high"
              \/ Get(stop, "shipmentType", "undefined") = "military"
           THEN 15 ELSE 0)

\* `route:${JSON.stringify(stops)}:${JSON.stringify(options)}`
SequenceCacheKey(stops, options) ==
    [prefix |-> "route:", body |-> <<stops, options>>]

\* The routeOptions object posted to the routing API.
RouteOptions(stops, options, trafficData, weatherData) ==
    LET secure == \/ options.securityLevel = "high"
                  \/ Get(options, "shipmentType", "undefined") = "military"
    IN  [stops |-> [i \in 1..Len(stops) |->
                           [id |-> stops[i].id,
                            serviceTime |-> CalculateServiceTime(stops[i]),
                            priority |-> stops[i].priority]],
         trafficConditions |-> trafficData.overallCondition,
         weatherConditions |-> weatherData,
         vehicleType |-> IF options.vehicleType = "undefined" THEN "standard"
                         ELSE options.vehicleType,
         departureTime |-> IF options.departureTime = -1 THEN now
                           ELSE options.departureTime,
         securityLevel |-> options.securityLevel,
         alternateRoutes |-> IF secure THEN 3 ELSE 0,
         secureRouting |-> secure,
         avoidHighRiskAreas |-> secure]

\* The traffic provider's answers.  An incident carries its severity and
\* its distance from the route polyline in metres.
IncidentLists ==
    {<<>>,
     <<[severity |-> "severe", distanceM |-> 100]>>,
     <<[severity |-> "severe", distanceM |-> 800]>>,
     <<[severity |-> "high", distanceM |-> 100]>>}

TrafficSnapshots ==
    [overallCondition : {"light", "heavy", "severe"}, incidents : IncidentLists]

\* The weather provider's answers.
Weather(condition, visibility) ==
    [condition |-> condition, visibility |-> visibility,
     precipitation |-> 0, windSpeed |-> 10, temperature |-> 10]

WeatherSnapshots ==
    {Weather("clear", 8000), Weather("storm", 8000),
     Weather("blizzard", 8000), Weather("clear", 150), Weather("fog", 800)}

\* The conditions the providers report to a direct optimizeDeliverySequence
\* call or to a re-optimization.
CurrentTraffic == {[overallCondition |-> "light", incidents |-> <<>>]}

CurrentWeather == {Weather("clear", 8000)}

\* The live routes the monitor is asked about: stops, legs (duration in
\* seconds), committed arrival time (ms).
LiveRoutes ==
    {[sequence |-> <<Stop(1), Stop(2), Stop(3)>>,
      legs |-> <<[duration |-> Rat(600, 1)], [duration |-> Rat(900, 1)]>>,
      arrivalTime |-> 1500000,
      vehicleType |-> "truck",
      securityLevel |-> level] : level \in {"standard", "high"}}

\* turf.buffer(routeLine, 0.5, { units: 'kilometers' })
BufferMetres == 500

\* isIncidentOnRoute: the incident lies inside the buffer polygon.
IsIncidentOnRoute(incident, route) == incident.distanceM < BufferMetres

\* this.calculateNewETA(route, trafficData): the class defines no such
\* method, so evaluating the call throws a TypeError.
CalculateNewETA(route, trafficData) == [threw |-> TRUE, value |-> 0]

\* checkIfReroutingNeeded: its boolean, or threw when it throws.
\* The three consts are evaluated in turn; && evaluates its right operand
\* only when overallCondition is 'severe'.
CheckIfReroutingNeeded(route, trafficData, weatherData) ==
    LET severeTrafficOnRoute ==
            \E i \in 1..Len(trafficData.incidents) :
                /\ trafficData.incidents[i].severity = "severe"
                /\ IsIncidentOnRoute(trafficData.incidents[i], route)
        severeWeather == \/ weatherData.condition = "storm"
                         \/ weatherData.condition = "blizzard"
                         \/ weatherData.visibility < 200
        newETA == CalculateNewETA(route, trafficData)
        threw == trafficData.overallCondition = "severe" /\ newETA.threw
        significantDelay ==
            /\ trafficData.overallCondition = "severe"
            /\ newETA.value - route.arrivalTime > 30 * 60 * 1000
    IN  [threw |-> threw,
         value |-> ~threw /\ (severeTrafficOnRoute \/ severeWeather \/ significantDelay)]

\* calculateOverallDelayFactor, in tenths.
CalculateOverallDelayFactor(trafficData) ==
    CASE trafficData.overallCondition = "free_flow" -> 9
      [] trafficData.overallCondition = "light" -> 10
      [] trafficData.overallCondition = "moderate" -> 12
      [] trafficData.overallCondition = "heavy" -> 15
      [] trafficData.overallCondition = "severe" -> 20
      [] OTHER -> 10

\* A weather factor that gives the heaviest precipitation band 1.2.
CalculateWeatherDelayFactorDip(weatherData) ==
    LET p == weatherData.precipitation
        precipitation == IF p = 0 THEN 10
                         ELSE IF p < 2 THEN 11
                         ELSE IF p < 10 THEN 13 ELSE 12
        visibility == IF weatherData.visibility < 1000 THEN 14
                      ELSE IF weatherData.visibility < 5000 THEN 12 ELSE 10
        wind == IF weatherData.windSpeed > 50 THEN 13
                ELSE IF weatherData.windSpeed > 30 THEN 11 ELSE 10
        ice == IF weatherData.temperature < 2 /\ weatherData.temperature > -2
               THEN 15 ELSE 10
    IN  precipitation * visibility * wind * ice

\* calculateWeatherDelayFactor, in ten-thousandths (four bands of tenths).
CalculateWeatherDelayFactor(weatherData) ==
    LET p == weatherData.precipitation
        precipitation == IF p = 0 THEN 10
                         ELSE IF p < 2 THEN 11
                         ELSE IF p < 10 THEN 13 ELSE 16
        visibility == IF weatherData.visibility < 1000 THEN 14
                      ELSE IF weatherData.visibility < 5000 THEN 12 ELSE 10
        wind == IF weatherData.windSpeed > 50 THEN 13
                ELSE IF weatherData.windSpeed > 30 THEN 11 ELSE 10
        ice == IF weatherData.temperature < 2 /\ weatherData.temperature > -2
               THEN 15 ELSE 10
    IN  precipitation * visibility * wind * ice

\* The three factors recalculateETAs computes: trafficDelayFactor (tenths),
\* weatherDelayFactor (ten-thousandths) and their product totalDelayFactor
\* (hundred-thousandths).
DelayFactors(trafficData, weatherData) ==
    LET trafficDelayFactor == CalculateOverallDelayFactor(trafficData)
        weatherDelayFactor == CalculateWeatherDelayFactor(weatherData)
    IN  [trafficDelayFactor |-> trafficDelayFactor,
         weatherDelayFactor |-> weatherDelayFactor,
         totalDelayFactor |-> trafficDelayFactor * weatherDelayFactor]

RECURSIVE UpdateLegsNoDwell(_, _, _, _)
\* A re-timing of the legs that leaves the service times out.
UpdateLegsNoDwell(route, factor, i, currentTime) ==
    IF i > Len(route.legs) THEN <<>>
    ELSE LET originalDuration == route.legs[i].duration
             adjustedDuration == RatScale(originalDuration, factor, 100000)
             arrival == currentTime + Floor(RatScale(adjustedDuration, 1000, 1))
             updatedLeg == [duration |-> adjustedDuration,
                            delay |-> RatSub(adjustedDuration, originalDuration),
                            departureTime |-> currentTime,
                            arrivalTime |-> arrival]
         IN  <<updatedLeg>> \o UpdateLegsNoDwell(route, factor, i + 1, arrival)

RECURSIVE UpdateLegs(_, _, _, _)
\* The route.legs.map of recalculateETAs from leg i on; currentTime is in
\* ms (a Date holds whole milliseconds), factor in hundred-thousandths.
UpdateLegs(route, factor, i, currentTime) ==
    IF i > Len(route.legs) THEN <<>>
    ELSE LET originalDuration == route.legs[i].duration
             adjustedDuration == RatScale(originalDuration, factor, 100000)
             arrival == currentTime + Floor(RatScale(adjustedDuration, 1000, 1))
             serviceMs == IF i < Len(route.sequence)
                          THEN route.sequence[i + 1].serviceTime * 60 * 1000
                          ELSE 0
             updatedLeg == [duration |-> adjustedDuration,
                            delay |-> RatSub(adjustedDuration, originalDuration),
                            departureTime |-> currentTime,
                            arrivalTime |-> arrival]
         IN  <<updatedLeg>> \o UpdateLegs(route, factor, i + 1, arrival + serviceMs)

\* recalculateETAs: a copy of the route with the legs re-timed.
RecalculateETAs(route, trafficData, weatherData) ==
    LET totalDelayFactor == DelayFactors(trafficData, weatherData).totalDelayFactor
        legs == UpdateLegs(route, totalDelayFactor, 1, now * 1000)
        cumulativeDelay == RatSum([i \in 1..Len(legs) |-> legs[i].delay])
    IN  [sequence |-> route.sequence,
         legs |-> legs,
         totalDuration |-> RatSum([i \in 1..Len(legs) |-> legs[i].duration]),
         trafficDelayMinutes |-> Round(RatScale(cumulativeDelay, 1, 60)),
         arrivalTime |-> legs[Len(legs)].arrivalTime,
         vehicleType |-> route.vehicleType,
         securityLevel |-> route.securityLevel]

\* The routing API's answers for a routeOptions object: the stops in the
\* given order or in reverse.
RoutingResponses(routeOptions) ==
    LET ids == [i \in 1..Len(routeOptions.stops) |-> routeOptions.stops[i].id]
        rev == [i \in 1..Len(ids) |-> ids[Len(ids) + 1 - i]]
    IN  {[sequence |-> order, totalDuration |-> 600 * Len(order),
          departureTime |-> routeOptions.departureTime,
          alternateRoutes |-> <<>>] : order \in {ids, rev}}

\* --------------------------------------------------------- the database

\* The shipments and vehicles the controllers work on.  Vehicle 3 is the
\* drone (the Vehicle model with type drone).
DbShipmentIds == {1, 2}
DbVehicleIds == {1, 2, 3}
DroneId == 3

\* shipment.dimensions.weight and vehicle.capacity.weight, in kg: vehicle
\* 2 is too small for shipment 2.
ShipmentWeight(s) == IF s = 1 THEN 100 ELSE 800
VehicleCapacity(v) == IF v = 1 THEN 1000 ELSE 500

\* The collections before the first request: shipments pending and not
\* assigned (0: no vehicle), vehicles idle with no shipment, no command.
InitialDb ==
    [shipments |-> [s \in DbShipmentIds |->
                      [status |-> "pending", assignedVehicle |-> 0]],
     vehicles |-> [v \in DbVehicleIds |->
                      [type |-> IF v = DroneId THEN "drone" ELSE "truck",
                       status |-> "idle", assignedShipments |-> <<>>]],
     commands |-> <<>>]

\* ---------------------------------------------------------- initial state

NoLocal == [shipments |-> <<>>, vehicles |-> <<>>, stops |-> <<>>,
            options |-> None, payload |-> None, cacheKey |-> None,
            optimizationResult |-> None]

NoHist == [cacheRead |-> "none", expected |-> None, solver |-> "none",
           response |-> None, cacheWrite |-> "none", eval |-> None,
           prev |-> None, repeats |-> 0]

Init ==
    /\ now = 0
    /\ cache = {}
    /\ published = {}
    /\ pc = [c \in Calls |-> "idle"]
    /\ req = [c \in Calls |-> None]
    /\ local = [c \in Calls |-> NoLocal]
    /\ outcome = [c \in Calls |-> None]
    /\ hist = [c \in Calls |-> NoHist]
    /\ writes = <<>>
    /\ db = InitialDb
    /\ http = [served |-> 0, request |-> None, response |-> None, before |-> None]
    /\ droneConnections = <<>>
    /\ sockets = <<>>

\* ------------------------------------------------------------------ Redis

\* The live entries of a key (Redis drops an entry when its EX time is up).
Live(key) == {e \in cache : e.key = key /\ now < e.expiresAt}

\* redis.get(key): the stored string, or null.
RedisGet(key) == IF Live(key) = {} THEN None ELSE (CHOOSE e \in Live(key) : TRUE).value

\* SET of a key that keeps an entry already there.
RedisSetIfAbsent(key, value, ttl) ==
    IF Live(key) # {} THEN cache
    ELSE {e \in cache : e.key # key} \cup
            {[key |-> key, value |-> value, expiresAt |-> now + ttl]}

\* redis.set(key, value, 'EX', ttl): the entry of the key is replaced.
RedisSet(key, value, ttl) ==
    {e \in cache : e.key # key} \cup
        {[key |-> key, value |-> value, expiresAt |-> now + ttl]}

\* The successful writes of a key so far.
WritesOf(key) == {i \in 1..Len(writes) : writes[i].key = key}

\* What the log of writes says a read of the key finds now: the value
\* last written under it if that write is less than its TTL old.
Expected(key) ==
    LET w == WritesOf(key)
    IN  IF w # {} /\ now < writes[MaxOf(w)].at + writes[MaxOf(w)].ttl
        THEN writes[MaxOf(w)].value ELSE None

\* The bookkeeping of a cache read that answered / a write that succeeded.
ReadNoted(h, how, key) == [h EXCEPT !.cacheRead = how, !.expected = Expected(key)]

WriteNoted(c, key, value, ttl) ==
    Append(writes, [call |-> c, key |-> key, value |-> value, at |-> now,
                    ttl |-> ttl])

\* --------------------------------------------------------- optimizeRoutes

\* The object optimizeRoutes returns for an optimizationResult.
RouteResult(optimizationResult) ==
    [kind |-> "result",
     optimizedMetrics |-> optimizationResult.metrics,
     routes |-> optimizationResult.routes,
     unassignedShipments |-> optimizationResult.unassignedShipments]

\* throw error: the rejection the caller gets.
Thrown(message) == [kind |-> "error", message |-> message]

\* Lines 341-359: build the result, publish the optimization event (not
\* awaited) and return.
Complete(c, optimizationResult) ==
    /\ local' = [local EXCEPT ![c].optimizationResult = optimizationResult]
    /\ outcome' = [outcome EXCEPT ![c] = RouteResult(optimizationResult)]
    /\ published' = published \cup {c}
    /\ pc' = [pc EXCEPT ![c] = "done"]

\* The outer catch: the error reaches the caller, nothing is published.
Fail(c, message) ==
    /\ outcome' = [outcome EXCEPT ![c] = Thrown(message)]
    /\ pc' = [pc EXCEPT ![c] = "failed"]
    /\ UNCHANGED published

\* A caller invokes optimizeRoutes(shipmentIds, parameters).
Start(c) ==
    /\ pc[c] = "idle"
    /\ \A d \in Calls : d < c => pc[d] # "idle"
    /\ \E r \in Requests :
          req' = [req EXCEPT ![c] = [kind |-> "optimizeRoutes",
                                     shipmentIds |-> r.shipmentIds,
                                     parameters |-> r.parameters]]
    /\ pc' = [pc EXCEPT ![c] = "findShipments"]
    /\ UNCHANGED <<store, now, cache, published, local, outcome, hist, writes>>

\* await Shipment.find(...); throws when nothing is found.
FetchShipments(c) ==
    /\ pc[c] = "findShipments"
    /\ LET shipments == FindShipments(req[c].shipmentIds)
       IN  IF Len(shipments) = 0
           THEN /\ Fail(c, "No shipments found for optimization")
                /\ UNCHANGED local
           ELSE /\ local' = [local EXCEPT ![c].shipments = shipments]
                /\ pc' = [pc EXCEPT ![c] = "findVehicles"]
                /\ UNCHANGED <<outcome, published>>
    /\ UNCHANGED <<store, now, cache, req, hist, writes>>

\* if (!vehicles.length) throw: a request with no vehicle goes no further.
VehiclesUsableAlways(vehicles) == TRUE

VehiclesUsable(vehicles) == Len(vehicles) # 0

\* await findSuitableVehicles(shipments); throws when there is none; else
\* the payload and the key are built and the cache read is issued.
FetchVehicles(c) ==
    /\ pc[c] = "findVehicles"
    /\ LET vehicles == FindSuitableVehicles(local[c].shipments)
           payload == OptimizationPayload(local[c].shipments, vehicles,
                                          req[c].parameters)
       IN  IF ~VehiclesUsable(vehicles)
           THEN /\ Fail(c, "No suitable vehicles available for these shipments")
                /\ UNCHANGED local
           ELSE /\ local' = [local EXCEPT ![c].vehicles = vehicles,
                                          ![c].payload = payload,
                                          ![c].cacheKey = RouteOptCacheKey(payload)]
                /\ pc' = [pc EXCEPT ![c] = "cacheGet"]
                /\ UNCHANGED <<outcome, published>>
    /\ UNCHANGED <<store, now, cache, req, hist, writes>>

\* A cache read whose answer is not looked at.
CacheGetReplyIgnored(c) ==
    /\ pc[c] = "cacheGet"
    /\ hist' = [hist EXCEPT ![c] = ReadNoted(@, "miss", local[c].cacheKey)]
    /\ pc' = [pc EXCEPT ![c] = "solver"]
    /\ UNCHANGED <<store, now, cache, req, writes, local, outcome, published>>

\* await redis.get(cacheKey) answers: a hit is parsed and returned, a miss
\* issues the solver call.
CacheGetReply(c) ==
    /\ pc[c] = "cacheGet"
    /\ LET cachedResult == RedisGet(local[c].cacheKey)
       IN  IF cachedResult # None
           THEN /\ hist' = [hist EXCEPT ![c] = ReadNoted(@, "hit", local[c].cacheKey)]
                /\ Complete(c, cachedResult)
           ELSE /\ hist' = [hist EXCEPT ![c] = ReadNoted(@, "miss", local[c].cacheKey)]
                /\ pc' = [pc EXCEPT ![c] = "solver"]
                /\ UNCHANGED <<local, outcome, published>>
    /\ UNCHANGED <<store, now, cache, req, writes>>

\* await redis.get(cacheKey) rejects (the store is unreachable): the
\* rejection is outside the inner try and reaches the outer catch.
CacheGetError(c) ==
    /\ pc[c] = "cacheGet"
    /\ hist' = [hist EXCEPT ![c].cacheRead = "error"]
    /\ Fail(c, "Redis error")
    /\ UNCHANGED <<store, now, cache, req, local, writes>>

\* await axios.post(...) resolves: the response is taken and the cache
\* write is issued.
SolverReply(c) ==
    /\ pc[c] = "solver"
    /\ \E response \in SolverResponses(local[c].payload) :
          /\ local' = [local EXCEPT ![c].optimizationResult = response]
          /\ hist' = [hist EXCEPT ![c].solver = "ok", ![c].response = response]
    /\ pc' = [pc EXCEPT ![c] = "cacheSet"]
    /\ UNCHANGED <<store, now, cache, published, req, outcome, writes>>

\* A catch that passes the solver's error on.
SolverErrorThrown(c) ==
    /\ pc[c] = "solver"
    /\ hist' = [hist EXCEPT ![c].solver = "error"]
    /\ Fail(c, "External optimization service error")
    /\ UNCHANGED <<store, now, cache, req, local, writes>>

\* await axios.post(...) rejects (error status, network error or the 30 s
\* timeout): the inner catch runs the fallback.
SolverError(c) ==
    /\ pc[c] = "solver"
    /\ hist' = [hist EXCEPT ![c].solver = "error"]
    /\ Complete(c, PerformInternalOptimization(local[c].payload))
    /\ UNCHANGED <<store, now, cache, req, writes>>

\* await redis.set(cacheKey, ..., 'EX', 300) resolves.
CacheSetReply(c) ==
    /\ pc[c] = "cacheSet"
    /\ LET value == local[c].optimizationResult
       IN  /\ cache' = RedisSet(local[c].cacheKey, value, CacheTTL)
           /\ writes' = WriteNoted(c, local[c].cacheKey, value, CacheTTL)
           /\ Complete(c, value)
    /\ hist' = [hist EXCEPT ![c].cacheWrite = "ok"]
    /\ UNCHANGED <<store, now, req>>

\* await redis.set(...) rejects: the rejection is inside the inner try, so
\* the catch meant for the solver runs the fallback.
CacheSetError(c) ==
    /\ pc[c] = "cacheSet"
    /\ hist' = [hist EXCEPT ![c].cacheWrite = "error"]
    /\ Complete(c, PerformInternalOptimization(local[c].payload))
    /\ UNCHANGED <<store, now, cache, req, writes>>

\* ----------------------------------------------- optimizeDeliverySequence

\* The object optimizeDeliverySequence builds from response.data.
OptimizedRoute(data) ==
    [sequence |-> data.sequence, totalDuration |-> data.totalDuration,
     departureTime |-> data.departureTime,
     alternateRoutes |-> data.alternateRoutes]

\* return of a route to the caller of the service.
Return(c, route) ==
    /\ outcome' = [outcome EXCEPT ![c] = [kind |-> "result", route |-> route]]
    /\ pc' = [pc EXCEPT ![c] = "done"]
    /\ UNCHANGED published

\* The first lines of optimizeDeliverySequence(stops, options): the key is
\* built and the cache read is issued.
EnterSequence(c, stops, options) ==
    /\ local' = [local EXCEPT ![c].stops = stops, ![c].options = options,
                              ![c].cacheKey = SequenceCacheKey(stops, options)]
    /\ pc' = [pc EXCEPT ![c] = "seqCacheGet"]

\* A caller (createPooledShipment) invokes optimizeDeliverySequence(stops).
SeqStart(c) ==
    /\ pc[c] = "idle"
    /\ \A d \in Calls : d < c => pc[d] # "idle"
    /\ \E stops \in StopLists :
          /\ req' = [req EXCEPT ![c] = [kind |-> "optimizeDeliverySequence",
                                        stops |-> stops, options |-> NoOptions]]
          /\ EnterSequence(c, stops, NoOptions)
    /\ UNCHANGED <<store, now, cache, published, outcome, hist, writes>>

\* await redisClient.get(cacheKey) answers: a hit is parsed and returned; a
\* miss asks the traffic provider, then the weather provider.
SeqCacheGetReply(c) ==
    /\ pc[c] = "seqCacheGet"
    /\ LET cachedRoute == RedisGet(local[c].cacheKey)
       IN  IF cachedRoute # None
           THEN /\ hist' = [hist EXCEPT ![c] = ReadNoted(@, "hit", local[c].cacheKey)]
                /\ Return(c, cachedRoute)
           ELSE /\ hist' = [hist EXCEPT ![c] = ReadNoted(@, "miss", local[c].cacheKey)]
                /\ pc' = [pc EXCEPT ![c] = "seqConditions"]
                /\ UNCHANGED <<outcome, published>>
    /\ UNCHANGED <<store, now, cache, req, local, writes>>

\* await redisClient.get(cacheKey) rejects: nothing catches it.
SeqCacheGetError(c) ==
    /\ pc[c] = "seqCacheGet"
    /\ hist' = [hist EXCEPT ![c].cacheRead = "error"]
    /\ Fail(c, "Redis error")
    /\ UNCHANGED <<store, now, cache, req, local, writes>>

\* getTrafficData and getWeatherData answer: routeOptions is built and
\* posted to the routing API.
SeqConditionsReply(c) ==
    /\ pc[c] = "seqConditions"
    /\ \E trafficData \in CurrentTraffic, weatherData \in CurrentWeather :
          local' = [local EXCEPT ![c].payload =
                       RouteOptions(local[c].stops, local[c].options,
                                    trafficData, weatherData)]
    /\ pc' = [pc EXCEPT ![c] = "seqSolver"]
    /\ UNCHANGED <<store, now, cache, published, req, outcome, hist, writes>>

\* getTrafficData or getWeatherData rejects: nothing catches it.
SeqConditionsError(c) ==
    /\ pc[c] = "seqConditions"
    /\ Fail(c, "Provider error")
    /\ UNCHANGED <<store, now, cache, req, local, hist, writes>>

\* await axios.post(`${baseUrl}/optimize-route`, ...) resolves.
SeqSolverReply(c) ==
    /\ pc[c] = "seqSolver"
    /\ \E data \in RoutingResponses(local[c].payload) :
          /\ local' = [local EXCEPT ![c].optimizationResult = OptimizedRoute(data)]
          /\ hist' = [hist EXCEPT ![c].solver = "ok",
                                  ![c].response = OptimizedRoute(data)]
    /\ pc' = [pc EXCEPT ![c] = "seqCacheSet"]
    /\ UNCHANGED <<store, now, cache, published, req, outcome, writes>>

\* await axios.post(...) rejects: the catch logs and throws
\* 'Failed to optimize route: ...'.
SeqSolverError(c) ==
    /\ pc[c] = "seqSolver"
    /\ hist' = [hist EXCEPT ![c].solver = "error"]
    /\ Fail(c, "Failed to optimize route")
    /\ UNCHANGED <<store, now, cache, req, local, writes>>

\* await redisClient.set(cacheKey, ..., 'EX', this.cacheExpiry) resolves.
SeqCacheSetReply(c) ==
    /\ pc[c] = "seqCacheSet"
    /\ LET value == local[c].optimizationResult
       IN  /\ cache' = RedisSet(local[c].cacheKey, value, CacheTTL)
           /\ writes' = WriteNoted(c, local[c].cacheKey, value, CacheTTL)
           /\ Return(c, value)
    /\ hist' = [hist EXCEPT ![c].cacheWrite = "ok"]
    /\ UNCHANGED <<store, now, req, local>>

\* await redisClient.set(...) rejects inside the try: the same catch throws.
SeqCacheSetError(c) ==
    /\ pc[c] = "seqCacheSet"
    /\ hist' = [hist EXCEPT ![c].cacheWrite = "error"]
    /\ Fail(c, "Failed to optimize route")
    /\ UNCHANGED <<store, now, cache, req, local, writes>>

\* -------------------------------------------- updateRouteWithRealTimeData

\* What a projection of the route's arrival under the snapshot exceeds the
\* committed arrival time by, in minutes.
ProjectedExcessMinutes == {20, 45}

\* The stops and the options updateRouteWithRealTimeData passes to
\* optimizeDeliverySequence when it recreates the route.
ReoptimizeStops(route) ==
    [i \in 1..Len(route.sequence) |->
        [id |-> route.sequence[i].id,
         serviceTime |-> route.sequence[i].serviceTime,
         priority |-> route.sequence[i].priority]]

\* Options that leave the departure time out.
ReoptimizeOptionsUndated(route) == NoOptions

ReoptimizeOptions(route) ==
    [departureTime |-> now, vehicleType |-> route.vehicleType,
     securityLevel |-> route.securityLevel]

\* The monitor invokes updateRouteWithRealTimeData(route): the traffic and
\* weather providers are asked (Promise.all).
UpdateStart(c) ==
    /\ pc[c] = "idle"
    /\ c > NumCalls - NumUpdates
    /\ \A d \in Calls : (NumCalls - NumUpdates < d /\ d < c) => pc[d] # "idle"
    /\ \E route \in LiveRoutes :
          req' = [req EXCEPT ![c] = [kind |-> "updateRouteWithRealTimeData",
                                     route |-> route]]
    /\ pc' = [pc EXCEPT ![c] = "updConditions"]
    /\ UNCHANGED <<store, now, cache, published, local, outcome, hist, writes>>

\* Promise.all resolves: checkIfReroutingNeeded decides between a new
\* optimizeDeliverySequence call and recalculateETAs; when it throws, the
\* rejection reaches the caller.
UpdateEvaluate(c) ==
    /\ pc[c] = "updConditions"
    /\ \E trafficData \in TrafficSnapshots, weatherData \in WeatherSnapshots,
          excess \in ProjectedExcessMinutes :
          LET route == req[c].route
              needsRerouting == CheckIfReroutingNeeded(route, trafficData, weatherData)
              seen(d) == [hist EXCEPT ![c].eval =
                             [trafficData |-> trafficData,
                              weatherData |-> weatherData,
                              projectedExcess |-> excess, decision |-> d,
                              at |-> now]]
          IN  CASE needsRerouting.threw ->
                      /\ hist' = seen("threw")
                      /\ Fail(c, "TypeError: this.calculateNewETA is not a function")
                      /\ UNCHANGED local
                [] needsRerouting.value ->
                      /\ hist' = seen("reoptimize")
                      /\ EnterSequence(c, ReoptimizeStops(route),
                                       ReoptimizeOptions(route))
                      /\ UNCHANGED <<outcome, published>>
                [] OTHER ->
                      /\ hist' = seen("patch")
                      /\ Return(c, RecalculateETAs(route, trafficData, weatherData))
                      /\ UNCHANGED local
    /\ UNCHANGED <<store, now, cache, req, writes>>

\* The monitor invokes updateRouteWithRealTimeData again, with the route
\* recalculateETAs returned to it.
UpdateAgain(c) ==
    /\ pc[c] = "done"
    /\ req[c].kind = "updateRouteWithRealTimeData"
    /\ hist[c].eval.decision = "patch"
    /\ hist[c].repeats < MaxRepeats
    /\ req' = [req EXCEPT ![c].route = outcome[c].route]
    /\ hist' = [hist EXCEPT ![c].repeats = @ + 1,
                            ![c].prev = [route |-> req[c].route,
                                         eval |-> hist[c].eval,
                                         base |-> IF hist[c].prev = None
                                                  THEN req[c].route
                                                  ELSE hist[c].prev.base]]
    /\ outcome' = [outcome EXCEPT ![c] = None]
    /\ pc' = [pc EXCEPT ![c] = "updConditions"]
    /\ UNCHANGED <<store, now, cache, published, local, writes>>

\* getTrafficData or getWeatherData rejects: nothing catches it.
UpdateConditionsError(c) ==
    /\ pc[c] = "updConditions"
    /\ Fail(c, "Provider error")
    /\ UNCHANGED <<store, now, cache, req, local, hist, writes>>

\* ------------------------------------------------------------ environment

\* Time passes; Redis drops the entries whose time is up.
Tick ==
    /\ now < MaxTicks * TickSeconds
    /\ now' = now + TickSeconds
    /\ cache' = {e \in cache : now' < e.expiresAt}
    /\ UNCHANGED <<store, published, pc, req, local, outcome, hist, writes>>

\* optimizeRoutes.
RoutesNext ==
    \/ \E c \in Calls : Start(c)
    \/ \E c \in Calls : FetchShipments(c)
    \/ \E c \in Calls : FetchVehicles(c)
    \/ \E c \in Calls : CacheGetReply(c)
    \/ \E c \in Calls : CacheGetError(c)
    \/ \E c \in Calls : SolverReply(c)
    \/ \E c \in Calls : SolverError(c)
    \/ \E c \in Calls : CacheSetReply(c)
    \/ \E c \in Calls : CacheSetError(c)

\* optimizeDeliverySequence.
SequenceNext ==
    \/ \E c \in Calls : SeqCacheGetReply(c)
    \/ \E c \in Calls : SeqCacheGetError(c)
    \/ \E c \in Calls : SeqConditionsReply(c)
    \/ \E c \in Calls : SeqConditionsError(c)
    \/ \E c \in Calls : SeqSolverReply(c)
    \/ \E c \in Calls : SeqSolverError(c)
    \/ \E c \in Calls : SeqCacheSetReply(c)
    \/ \E c \in Calls : SeqCacheSetError(c)

\* updateRouteWithRealTimeData.
MonitorNext ==
    \/ \E c \in Calls : UpdateStart(c)
    \/ \E c \in Calls : UpdateEvaluate(c)
    \/ \E c \in Calls : UpdateConditionsError(c)

\* Concurrent optimizeRoutes calls over the shared cache.
Next ==
    \/ RoutesNext
    \/ Tick

Spec == Init /\ [][Next]_vars

\* Concurrent optimizeDeliverySequence calls over the shared cache.
NextSequence ==
    \/ \E c \in Calls : SeqStart(c)
    \/ SequenceNext
    \/ Tick

SpecSequence == Init /\ [][NextSequence]_vars

\* The reroute monitor and the re-optimizations it issues.
NextMonitor ==
    \/ MonitorNext
    \/ SequenceNext
    \/ Tick

SpecMonitor == Init /\ [][NextMonitor]_vars

\* The monitor next to the direct optimizeDeliverySequence calls that share
\* the cache with it.
NextReroute ==
    \/ MonitorNext
    \/ \E c \in Calls : SeqStart(c)
    \/ SequenceNext
    \/ Tick

SpecReroute == Init /\ [][NextReroute]_vars

\* The monitor evaluating again the routes it patched.
NextPatch ==
    \/ MonitorNext
    \/ \E c \in Calls : UpdateAgain(c)
    \/ SequenceNext
    \/ Tick

SpecPatch == Init /\ [][NextPatch]_vars

\* The steps of invocation c that are certain to come: the event loop runs
\* every continuation, and Redis and the traffic and weather providers
\* answer (well or with an error).  The routing API's answer is not among
\* them: axios.post(`${baseUrl}/optimize-route`, ...) is given no timeout,
\* so the call settles only when the routing API answers.
SequenceStep(c) ==
    \/ UpdateEvaluate(c)
    \/ UpdateConditionsError(c)
    \/ SeqCacheGetReply(c)
    \/ SeqCacheGetError(c)
    \/ SeqConditionsReply(c)
    \/ SeqConditionsError(c)
    \/ SeqCacheSetReply(c)
    \/ SeqCacheSetError(c)

SpecMonitorLive == SpecMonitor /\ \A c \in Calls : WF_vars(SequenceStep(c))

\* The steps of an optimizeRoutes invocation that are certain to come.  The
\* rejection of axios.post(..., { timeout: 30000 }) is among them: when the
\* solver does not answer, the timeout rejects the call after 30 s.
RoutesStep(c) ==
    \/ FetchShipments(c)
    \/ FetchVehicles(c)
    \/ CacheGetReply(c)
    \/ CacheGetError(c)
    \/ SolverError(c)
    \/ CacheSetReply(c)
    \/ CacheSetError(c)

SpecLive == Spec /\ \A c \in Calls : WF_vars(RoutesStep(c))

\* ------------------------------------------------- utils/calculations.js

\* A synchronous function called by invocation c: the call and its return
\* are one step.
Apply(c, request, result) ==
    /\ pc[c] = "idle"
    /\ \A d \in Calls : d < c => pc[d] # "idle"
    /\ req' = [req EXCEPT ![c] = request]
    /\ outcome' = [outcome EXCEPT ![c] = result]
    /\ pc' = [pc EXCEPT ![c] = "done"]
    /\ UNCHANGED <<store, now, cache, published, local, hist, writes>>

\* Points of one meridian, by their latitude in hundredths of a degree.
Latitudes == {0, 10, 50}

\* calculateDistance (Haversine) of two points of one meridian: R * dLat,
\* 1112 m for a hundredth of a degree; in metres.
CalculateDistance(lat1, lat2) == Abs(lat2 - lat1) * 1112

\* The integer part of a number (the time value of a Date is clipped to an
\* integer number of milliseconds).
Trunc(x) == IF x.n >= 0 THEN x.n \div x.d ELSE -((-x.n) \div x.d)

\* new Date(t) for a time value that is not finite.
InvalidDate == [valid |-> FALSE, time |-> 0]

\* calculateETA: the Date it returns.  distance / 0 is Infinity (NaN when
\* the distance is 0 too), and new Date of either is an Invalid Date; no
\* branch of the function throws.
CalculateETA(originPoint, destinationPoint, averageSpeed, startTime) ==
    LET distance == CalculateDistance(originPoint, destinationPoint)
    IN  IF averageSpeed = 0 THEN InvalidDate
        ELSE [valid |-> TRUE,
              time |-> Trunc(RatAdd(Rat(startTime, 1),
                                    Rat(distance * 3600, averageSpeed)))]

\* Average speeds (km/h) and start times (ms) given to calculateETA.
Speeds == {-60, 0, 7, 60}
StartTimes == {0, 1000}

\* A caller computes an ETA.
Eta(c) ==
    \E o \in Latitudes, d \in Latitudes, v \in Speeds, s \in StartTimes :
        Apply(c, [kind |-> "calculateETA", originPoint |-> o,
                  destinationPoint |-> d, averageSpeed |-> v, startTime |-> s],
              [kind |-> "result", value |-> CalculateETA(o, d, v, s)])

NextETA == \E c \in Calls : Eta(c)

SpecETA == Init /\ [][NextETA]_vars

\* ------------------------------------------------- calculateServiceTime

\* The stops calculateServiceTime is asked about.
ServiceStops ==
    [weight : {0, 5, 10, 25}, volume : {0, 3, 5, 12},
     requiresSignature : BOOLEAN, securityLevel : {"standard", "high"},
     shipmentType : {"standard", "restricted", "military"}]

\* optimizeDeliverySequence estimates the service time of a stop.
ServiceTime(c) ==
    \E stop \in ServiceStops :
        Apply(c, [kind |-> "calculateServiceTime", stop |-> stop],
              [kind |-> "result", value |-> CalculateServiceTime(stop)])

NextServiceTime == \E c \in Calls : ServiceTime(c)

SpecServiceTime == Init /\ [][NextServiceTime]_vars

\* --------------------------------------------------------- delay factors

\* The traffic recalculateETAs computes its factors from: every overall
\* condition of the table and one that is not in it.
FactorTraffic ==
    [overallCondition : {"free_flow", "light", "moderate", "heavy", "severe",
                         "gridlock"},
     incidents : {<<>>}]

\* The weather: a value in every band of precipitation (mm), visibility (m)
\* and wind speed (km/h), away from the freezing point; and three
\* weathers at it.
FactorWeather ==
    [condition : {"clear"}, visibility : {999, 1000, 5000},
     precipitation : {0, 1, 2, 10}, windSpeed : {30, 31, 51},
     temperature : {10}]

FreezingWeather ==
    [condition : {"clear"}, visibility : {999, 5000},
     precipitation : {0, 10}, windSpeed : {30}, temperature : {0}]

\* The snapshots: every traffic condition under the freezing weathers, and
\* every weather under light and under severe traffic.
FactorSnapshots ==
    (FactorTraffic \X FreezingWeather)
        \cup ({t \in FactorTraffic : t.overallCondition \in {"light", "severe"}}
                \X FactorWeather)

\* recalculateETAs computes the delay factors of a snapshot.
DelayFactor(c) ==
    \E snapshot \in FactorSnapshots :
        Apply(c, [kind |-> "delayFactors", trafficData |-> snapshot[1],
                  weatherData |-> snapshot[2]],
              [kind |-> "result", value |-> DelayFactors(snapshot[1], snapshot[2])])

NextDelay == \E c \in Calls : DelayFactor(c)

SpecDelay == Init /\ [][NextDelay]_vars

\* --------------------------------------------- performInternalOptimization

\* The shipments (ids, in payload order) and the vehicles of the payloads
\* the fallback is given: one to three groups, one to three vehicles.
FallbackShipments ==
    {<<2>>, <<1, 3>>, <<1, 2, 3, 4>>, <<3, 1, 4, 2>>, <<4, 3, 2, 1>>, <<3, 4, 1>>,
     <<1, 5>>, <<2, 1, 3>>, <<3, 1, 6>>}

FallbackVehicles ==
    {<<1>>, <<1, 2>>, <<2, 1>>, <<1, 2, 3>>, <<3, 1, 2>>, <<2, 3>>}

\* The catch of optimizeRoutes runs the fallback on a payload.
Fallback(c) ==
    \E shipments \in FallbackShipments, vehicles \in FallbackVehicles :
        LET payload == OptimizationPayload(shipments, vehicles,
                                           [prioritize |-> "time"])
        IN  Apply(c, [kind |-> "performInternalOptimization", payload |-> payload],
                  [kind |-> "result", value |-> PerformInternalOptimization(payload)])

NextFallback == \E c \in Calls : Fallback(c)

SpecFallback == Init /\ [][NextFallback]_vars

\* ----------------------------------------------------- OrderPoolingService

\* this.poolingThreshold = 15 (km)
PoolingThreshold == 15

\* The pending orders of the region, by id, and the latitude of their
\* delivery location in hundredths of a degree (all on one meridian):
\* order 2 is 11 km from orders 1 and 3, which are 22 km apart.
OrderIds == {1, 2, 3, 4}

Order(id) ==
    [id |-> id,
     deliveryLat |-> CASE id = 1 -> 0 [] id = 2 -> 10 [] id = 3 -> 20 [] OTHER -> 100]

\* The sequences without repetition over a set of ids.
RECURSIVE Arrangements(_)
Arrangements(S) ==
    {<<>>} \cup UNION {{<<x>> \o rest : rest \in Arrangements(S \ {x})} : x \in S}

\* What shipmentModel.find may return: the orders of the region that are
\* pending inside the time window, in any order.
PendingOrderLists ==
    {[i \in 1..Len(ids) |-> Order(ids[i])] : ids \in Arrangements(OrderIds)}

\* OrderPoolingService.calculateDistance (Haversine) of two delivery
\* locations of one meridian, in metres.
PoolingDistance(coordA, coordB) == Abs(coordB - coordA) * 1112

\* An absorb test that takes every order.
WithinThresholdAlways(order, potentialMatch) == TRUE

\* distance <= this.poolingThreshold
WithinThreshold(order, potentialMatch) ==
    PoolingDistance(order.deliveryLat, potentialMatch.deliveryLat)
        <= PoolingThreshold * 1000

RECURSIVE PoolInner(_, _, _, _, _)
\* The inner for loop from potentialMatch j on: [group, processed].
PoolInner(pendingOrders, order, j, currentGroup, processedOrders) ==
    IF j > Len(pendingOrders)
    THEN [group |-> currentGroup, processed |-> processedOrders]
    ELSE LET potentialMatch == pendingOrders[j]
         IN  IF potentialMatch.id \in processedOrders
             THEN PoolInner(pendingOrders, order, j + 1, currentGroup, processedOrders)
             ELSE IF WithinThreshold(order, potentialMatch)
                  THEN PoolInner(pendingOrders, order, j + 1,
                                 Append(currentGroup, potentialMatch),
                                 processedOrders \cup {potentialMatch.id})
                  ELSE PoolInner(pendingOrders, order, j + 1, currentGroup,
                                 processedOrders)

RECURSIVE PoolOuter(_, _, _, _)
\* The outer for loop from order i on.
PoolOuter(pendingOrders, i, orderGroups, processedOrders) ==
    IF i > Len(pendingOrders) THEN orderGroups
    ELSE LET order == pendingOrders[i]
         IN  IF order.id \in processedOrders
             THEN PoolOuter(pendingOrders, i + 1, orderGroups, processedOrders)
             ELSE LET inner == PoolInner(pendingOrders, order, 1, <<order>>,
                                         processedOrders \cup {order.id})
                  IN  PoolOuter(pendingOrders, i + 1,
                                IF Len(inner.group) > 1
                                THEN Append(orderGroups, inner.group)
                                ELSE orderGroups,
                                inner.processed)

\* findPoolingCandidates after the find: the groups of two orders or more.
GroupOrders(pendingOrders) ==
    IF Len(pendingOrders) < 2 THEN <<>>
    ELSE PoolOuter(pendingOrders, 1, <<>>, {})

\* A caller invokes findPoolingCandidates(regionId): the find is issued.
PoolingStart(c) ==
    /\ pc[c] = "idle"
    /\ \A d \in Calls : d < c => pc[d] # "idle"
    /\ req' = [req EXCEPT ![c] = [kind |-> "findPoolingCandidates"]]
    /\ pc' = [pc EXCEPT ![c] = "poolFind"]
    /\ UNCHANGED <<store, now, cache, published, local, outcome, hist, writes>>

\* await shipmentModel.find(...) resolves: the orders are grouped and the
\* groups returned.
PoolingFindReply(c) ==
    /\ pc[c] = "poolFind"
    /\ \E pendingOrders \in PendingOrderLists :
          /\ local' = [local EXCEPT ![c].shipments = pendingOrders]
          /\ outcome' = [outcome EXCEPT ![c] =
                            [kind |-> "result", value |-> GroupOrders(pendingOrders)]]
    /\ pc' = [pc EXCEPT ![c] = "done"]
    /\ UNCHANGED <<store, now, cache, published, req, hist, writes>>

\* await shipmentModel.find(...) rejects: nothing catches it.
PoolingFindError(c) ==
    /\ pc[c] = "poolFind"
    /\ Fail(c, "Database error")
    /\ UNCHANGED <<store, now, cache, req, local, hist, writes>>

NextPooling ==
    \/ \E c \in Calls : PoolingStart(c)
    \/ \E c \in Calls : PoolingFindReply(c)
    \/ \E c \in Calls : PoolingFindError(c)

SpecPooling == Init /\ [][NextPooling]_vars

\* --------------------------------------------------------- recalculateETAs

\* The routes recalculateETAs is given: stops with their service times and
\* one leg fewer, durations in seconds.
PatchRoutes ==
    {[sequence |-> <<Stop(1), Stop(2)>>,
      legs |-> <<[duration |-> Rat(601, 1)]>>,
      arrivalTime |-> 601000, vehicleType |-> "truck",
      securityLevel |-> "standard"],
     [sequence |-> <<Stop(1), Stop(2), Stop(3)>>,
      legs |-> <<[duration |-> Rat(600, 1)], [duration |-> Rat(900, 1)]>>,
      arrivalTime |-> 1500000, vehicleType |-> "truck",
      securityLevel |-> "standard"],
     [sequence |-> <<Stop(3), Stop(1), Stop(4), Stop(2)>>,
      legs |-> <<[duration |-> Rat(300, 1)], [duration |-> Rat(601, 1)],
                 [duration |-> Rat(1201, 2)]>>,
      arrivalTime |-> 1501500, vehicleType |-> "truck",
      securityLevel |-> "standard"]}

\* The conditions it is given: factors 0.9, 1.5 * 1.4 and, with every
\* weather band raised, factors that leave a fraction of a millisecond.
PatchTraffic ==
    {t \in FactorTraffic : t.overallCondition \in {"free_flow", "heavy"}}

PatchWeather ==
    {Weather("clear", 8000), Weather("fog", 800),
     [condition |-> "rain", visibility |-> 3000, precipitation |-> 1,
      windSpeed |-> 60, temperature |-> 0]}

\* updateRouteWithRealTimeData patches a route: recalculateETAs at the
\* current time.
Recalculate(c) ==
    \E route \in PatchRoutes, trafficData \in PatchTraffic,
       weatherData \in PatchWeather :
        Apply(c, [kind |-> "recalculateETAs", route |-> route,
                  trafficData |-> trafficData, weatherData |-> weatherData,
                  at |-> now],
              [kind |-> "result",
               route |-> RecalculateETAs(route, trafficData, weatherData)])

\* Time passes.
Clock ==
    /\ now < MaxTicks * TickSeconds
    /\ now' = now + TickSeconds
    /\ UNCHANGED <<store, cache, published, pc, req, local, outcome, hist, writes>>

NextRecalculate ==
    \/ \E c \in Calls : Recalculate(c)
    \/ Clock

SpecRecalculate == Init /\ [][NextRecalculate]_vars

\* ---------------------------------------------------------- buildRouteStops

\* A stop's estimatedArrival before the loop sets it (undefined).
NoArrival == -1

RECURSIVE InsertByTime(_, _)
\* A stop inserted into stops sorted by time, after the stops of the same
\* time (Array.prototype.sort is stable).
InsertByTime(sorted, stop) ==
    IF sorted = <<>> THEN <<stop>>
    ELSE IF Head(sorted).time <= stop.time
         THEN <<Head(sorted)>> \o InsertByTime(Tail(sorted), stop)
         ELSE <<stop>> \o sorted

RECURSIVE SortByTime(_)
\* stops.sort((a, b) => a.time - b.time)
SortByTime(stops) ==
    IF stops = <<>> THEN <<>>
    ELSE InsertByTime(SortByTime(SubSeq(stops, 1, Len(stops) - 1)),
                      stops[Len(stops)])

RECURSIVE EstimateArrivals(_, _, _)
\* The loop over the sorted stops from index i on (1 is the first stop);
\* done holds the stops already treated.  setHours takes the whole hours
\* of getHours() + distance / 60.
EstimateArrivals(stops, i, done) ==
    IF i > Len(stops) THEN done
    ELSE IF i = 1 THEN EstimateArrivals(stops, 2, <<stops[1]>>)
    ELSE LET prevStop == done[i - 1]
             currentStop == stops[i]
             distance == CalculateDistance(prevStop.location, currentStop.location)
             from == IF prevStop.estimatedArrival # NoArrival
                     THEN prevStop.estimatedArrival ELSE prevStop.time
             arrival == from + (distance \div 60000) * 3600
         IN  EstimateArrivals(stops, i + 1,
                 Append(done, [currentStop EXCEPT !.estimatedArrival = arrival]))

\* buildRouteStops at wall-clock time `at` (s): locations are latitudes in
\* hundredths of a degree, times are in seconds.
BuildRouteStops(shipments, vehicle, at) ==
    LET start == <<[type |-> "start", shipmentId |-> 0,
                    location |-> vehicle.location, time |-> at,
                    estimatedArrival |-> NoArrival]>>
        pickups == [i \in 1..Len(shipments) |->
                      [type |-> "pickup", shipmentId |-> shipments[i].id,
                       location |-> shipments[i].origin,
                       time |-> shipments[i].pickup,
                       estimatedArrival |-> NoArrival]]
        deliveries == [i \in 1..Len(shipments) |->
                         [type |-> "delivery", shipmentId |-> shipments[i].id,
                          location |-> shipments[i].destination,
                          time |-> shipments[i].delivery,
                          estimatedArrival |-> NoArrival]]
    IN  EstimateArrivals(SortByTime(start \o pickups \o deliveries), 1, <<>>)

\* The shipments of a payload with their requested pickup and delivery
\* times (s): shipment 2 was to be picked up at 100 s, shipment 3 is to be
\* delivered before it is picked up, shipment 4 at the time it is picked up.
StopShipment(id) ==
    CASE id = 1 -> [id |-> 1, origin |-> 0, destination |-> 100,
                    pickup |-> 3600, delivery |-> 7200]
      [] id = 2 -> [id |-> 2, origin |-> 1, destination |-> 102,
                    pickup |-> 100, delivery |-> 7200]
      [] id = 3 -> [id |-> 3, origin |-> 0, destination |-> 600,
                    pickup |-> 7200, delivery |-> 3600]
      [] OTHER -> [id |-> 4, origin |-> 1, destination |-> 100,
                   pickup |-> 3600, delivery |-> 3600]

\* The groups buildRouteStops is given, and the vehicles.
StopGroups ==
    {<<StopShipment(1)>>, <<StopShipment(2)>>, <<StopShipment(3)>>,
     <<StopShipment(4)>>, <<StopShipment(1), StopShipment(2)>>,
     <<StopShipment(2), StopShipment(1)>>, <<StopShipment(1), StopShipment(4)>>,
     <<StopShipment(3), StopShipment(1)>>}

StopVehicles == {[id |-> 1, location |-> 0], [id |-> 2, location |-> 50]}

\* performInternalOptimization builds the stops of a route.
BuildStops(c) ==
    \E shipments \in StopGroups, vehicle \in StopVehicles :
        Apply(c, [kind |-> "buildRouteStops", shipments |-> shipments,
                  vehicle |-> vehicle, at |-> now],
              [kind |-> "result", value |-> BuildRouteStops(shipments, vehicle, now)])

NextStops ==
    \/ \E c \in Calls : BuildStops(c)
    \/ Clock

SpecStops == Init /\ [][NextStops]_vars

\* ------------------------------------------------------ shipmentController

\* The ids a request may carry: 9 is the id of no shipment, 0 an absent
\* vehicleId, "" an absent status.
ShipmentParams == DbShipmentIds \cup {9}
VehicleParams == DbVehicleIds \cup {0}
StatusParams == {"", "in-transit", "delivered"}

\* VehicleSchema.methods.isSuitableForShipment (capacity check).
IsSuitableForShipment(vehicleId, shipmentId) ==
    ShipmentWeight(shipmentId) <= VehicleCapacity(vehicleId)

\* res.status(code).json(...): the request is served.
Respond(request, code, error) ==
    http' = [served |-> http.served + 1, request |-> request,
             response |-> [status |-> code, error |-> error], before |-> db]

\* The array without the entries equal to id.
RECURSIVE Without(_, _)
Without(ids, id) ==
    IF ids = <<>> THEN <<>>
    ELSE IF Head(ids) = id THEN Without(Tail(ids), id)
         ELSE <<Head(ids)>> \o Without(Tail(ids), id)

\* PUT /shipments/:id/assign with body { vehicleId }.
AssignVehicle(shipmentId, vehicleId) ==
    LET request == [handler |-> "assignVehicle", id |-> shipmentId,
                    vehicleId |-> vehicleId, status |-> ""]
    IN  /\ http.served < MaxRequests
        /\ IF vehicleId = 0
           THEN Respond(request, 400, "Vehicle ID is required") /\ UNCHANGED db
           ELSE IF shipmentId \notin DOMAIN db.shipments
           THEN Respond(request, 404, "Shipment not found") /\ UNCHANGED db
           ELSE IF vehicleId \notin DOMAIN db.vehicles
           THEN Respond(request, 404, "Vehicle not found") /\ UNCHANGED db
           ELSE IF db.vehicles[vehicleId].status \notin {"idle", "loading"}
           THEN /\ Respond(request, 400, "Vehicle is not available for assignment")
                /\ UNCHANGED db
           ELSE IF ~IsSuitableForShipment(vehicleId, shipmentId)
           THEN /\ Respond(request, 400, "Vehicle is not suitable for this shipment")
                /\ UNCHANGED db
           ELSE /\ db' = [db EXCEPT
                            !.shipments[shipmentId] =
                                [status |-> "assigned", assignedVehicle |-> vehicleId],
                            !.vehicles[vehicleId] =
                                [@ EXCEPT !.status = "loading",
                                          !.assignedShipments = Append(@, shipmentId)]]
                /\ Respond(request, 200, "")
        /\ UNCHANGED <<now, cache, published, pc, req, local, outcome, hist,
                       writes, droneConnections, sockets>>

\* The vehicles collection after updateStatus marked the shipment
\* delivered: the shipment leaves the list of its assigned vehicle, and a
\* vehicle whose list is then empty gets status 'returning'.
VehiclesAfterDelivery(shipmentId) ==
    LET v == db.shipments[shipmentId].assignedVehicle
    IN  IF v = 0 \/ v \notin DOMAIN db.vehicles THEN db.vehicles
        ELSE LET left == Without(db.vehicles[v].assignedShipments, shipmentId)
             IN  [db.vehicles EXCEPT
                     ![v] = [@ EXCEPT !.assignedShipments = left,
                                      !.status = IF left = <<>> THEN "returning"
                                                 ELSE @]]

\* PUT /shipments/:id/status with body { status }.
UpdateStatus(shipmentId, status) ==
    LET request == [handler |-> "updateStatus", id |-> shipmentId,
                    vehicleId |-> 0, status |-> status]
    IN  /\ http.served < MaxRequests
        /\ IF status = ""
           THEN Respond(request, 400, "Status is required") /\ UNCHANGED db
           ELSE IF shipmentId \notin DOMAIN db.shipments
           THEN Respond(request, 404, "Shipment not found") /\ UNCHANGED db
           ELSE /\ db' = [db EXCEPT
                            !.shipments[shipmentId].status = status,
                            !.vehicles = IF status = "delivered"
                                         THEN VehiclesAfterDelivery(shipmentId)
                                         ELSE @]
                /\ Respond(request, 200, "")
        /\ UNCHANGED <<now, cache, published, pc, req, local, outcome, hist,
                       writes, droneConnections, sockets>>

\* DELETE /vehicles/:id.
DeleteVehicle(vehicleId) ==
    LET request == [handler |-> "deleteVehicle", id |-> vehicleId,
                    vehicleId |-> vehicleId, status |-> ""]
    IN  /\ http.served < MaxRequests
        /\ IF vehicleId \notin DOMAIN db.vehicles
           THEN Respond(request, 404, "Vehicle not found") /\ UNCHANGED db
           ELSE IF db.vehicles[vehicleId].assignedShipments # <<>>
           THEN /\ Respond(request, 400, "Cannot delete vehicle with assigned shipments")
                /\ UNCHANGED db
           ELSE /\ db' = [db EXCEPT
                            !.vehicles = [v \in DOMAIN db.vehicles \ {vehicleId} |->
                                             db.vehicles[v]]]
                /\ Respond(request, 200, "")
        /\ UNCHANGED <<now, cache, published, pc, req, local, outcome, hist,
                       writes, droneConnections, sockets>>

\* The controllers serve one request after another.
NextController ==
    \/ \E s \in ShipmentParams, v \in VehicleParams : AssignVehicle(s, v)
    \/ \E s \in ShipmentParams, status \in StatusParams : UpdateStatus(s, status)
    \/ \E v \in DbVehicleIds : DeleteVehicle(v)

SpecController == Init /\ [][NextController]_vars

\* ------------------------------------------------------------ droneService

\* The ids assignDroneMission and recallDrone are called with: the drone
\* and a truck.
DroneParams == {DroneId, 1}

\* The commands of a drone that are pending or in progress, by position
\* in the collection.
ActiveCommands(droneId) ==
    {k \in 1..Len(db.commands) :
        /\ db.commands[k].droneId = droneId
        /\ db.commands[k].status \in {"pending", "in-progress"}}

\* The connection of the drone is registered and open.
Connected(droneId) ==
    /\ droneId \in DOMAIN droneConnections
    /\ sockets[droneConnections[droneId]].state = "open"

\* A caller invokes assignDroneMission or recallDrone: Drone.findById is
\* issued.
DroneStart(c) ==
    /\ pc[c] = "idle"
    /\ \A d \in Calls : d < c => pc[d] # "idle"
    /\ \E kind \in {"assignDroneMission", "recallDrone"}, droneId \in DroneParams :
          req' = [req EXCEPT ![c] = [kind |-> kind, droneId |-> droneId]]
    /\ local' = [local EXCEPT ![c] = [status |-> "undefined", activeCommand |-> 0,
                                      command |-> 0, overwrote |-> "undefined"]]
    /\ pc' = [pc EXCEPT ![c] = "droneFind"]
    /\ UNCHANGED <<store, now, cache, published, outcome, hist, writes>>

\* await Drone.findById(droneId) resolves: the checks, then the command is
\* saved (assignDroneMission) or looked for (recallDrone).
DroneFindReply(c) ==
    /\ pc[c] = "droneFind"
    /\ LET droneId == req[c].droneId
           assign == req[c].kind = "assignDroneMission"
       IN  IF droneId \notin DOMAIN db.vehicles
           THEN Fail(c, "Drone not found") /\ UNCHANGED local
           ELSE IF db.vehicles[droneId].type # "drone"
           THEN Fail(c, "Vehicle is not a drone") /\ UNCHANGED local
           ELSE IF assign /\ db.vehicles[droneId].status \notin {"idle", "returning"}
           THEN /\ Fail(c, "Drone is not available for mission assignment")
                /\ UNCHANGED local
           ELSE IF ~assign /\ db.vehicles[droneId].status = "idle"
           THEN Fail(c, "Drone is already idle") /\ UNCHANGED local
           ELSE /\ local' = [local EXCEPT ![c].status = db.vehicles[droneId].status]
                /\ pc' = [pc EXCEPT ![c] = IF assign THEN "commandSave"
                                           ELSE "commandFind"]
                /\ UNCHANGED <<outcome, published>>
    /\ UNCHANGED <<store, now, cache, req, hist, writes>>

\* await command.save() resolves: the pending command is in the
\* collection, and the drone's save is issued.
CommandSaveReply(c) ==
    /\ pc[c] = "commandSave"
    /\ db' = [db EXCEPT !.commands =
                  Append(@, [droneId |-> req[c].droneId, status |-> "pending"])]
    /\ local' = [local EXCEPT ![c].command = Len(db.commands) + 1]
    /\ pc' = [pc EXCEPT ![c] = "droneSave"]
    /\ UNCHANGED <<now, cache, published, req, outcome, hist, writes, http,
                   droneConnections, sockets>>

\* await DroneCommand.findOne({ droneId, status: { $in: [...] } })
\* resolves: an active command is aborted, and without one the drone's
\* save is issued.
CommandFindReply(c) ==
    /\ pc[c] = "commandFind"
    /\ LET active == ActiveCommands(req[c].droneId)
       IN  IF active = {}
           THEN /\ pc' = [pc EXCEPT ![c] = "droneSave"]
                /\ UNCHANGED local
           ELSE /\ local' = [local EXCEPT ![c].activeCommand =
                                 CHOOSE k \in active : \A j \in active : k <= j]
                /\ pc' = [pc EXCEPT ![c] = "commandAbort"]
    /\ UNCHANGED <<store, now, cache, published, req, outcome, hist, writes>>

\* await activeCommand.save() resolves.
CommandAbortReply(c) ==
    /\ pc[c] = "commandAbort"
    /\ db' = [db EXCEPT !.commands[local[c].activeCommand].status = "aborted"]
    /\ pc' = [pc EXCEPT ![c] = "droneSave"]
    /\ UNCHANGED <<now, cache, published, req, local, outcome, hist, writes,
                   http, droneConnections, sockets>>

\* await drone.save() resolves: the status is written, the message goes to
\* the drone if its connection is registered and open, and the call
\* returns.
DroneSaveReply(c) ==
    /\ pc[c] = "droneSave"
    /\ LET droneId == req[c].droneId
           status == IF req[c].kind = "assignDroneMission" THEN "in-transit"
                     ELSE "returning"
       IN  /\ local' = [local EXCEPT ![c].overwrote = db.vehicles[droneId].status]
           /\ db' = [db EXCEPT !.vehicles[droneId].status = status]
           /\ outcome' = [outcome EXCEPT ![c] =
                             [kind |-> "result", success |-> TRUE,
                              status |-> status, sent |-> Connected(droneId)]]
    /\ pc' = [pc EXCEPT ![c] = "done"]
    /\ UNCHANGED <<now, cache, published, req, hist, writes, http,
                   droneConnections, sockets>>

\* An await on the database rejects: the catch logs and rethrows.
DroneDbError(c) ==
    /\ pc[c] \in {"droneFind", "commandSave", "commandFind", "commandAbort",
                  "droneSave"}
    /\ Fail(c, "Database error")
    /\ UNCHANGED <<store, now, cache, req, local, hist, writes>>

\* Concurrent assignDroneMission and recallDrone calls.
NextDrones ==
    \/ \E c \in Calls : DroneStart(c)
    \/ \E c \in Calls : DroneFindReply(c)
    \/ \E c \in Calls : CommandSaveReply(c)
    \/ \E c \in Calls : CommandFindReply(c)
    \/ \E c \in Calls : CommandAbortReply(c)
    \/ \E c \in Calls : DroneSaveReply(c)
    \/ \E c \in Calls : DroneDbError(c)

SpecDrones == Init /\ [][NextDrones]_vars

\* The drones that connect: the drone and two more.
SocketDrones == {DroneId, 4, 5}

\* registerDroneConnection(droneId, connection) with a connection just
\* opened: the Map entry is set and the close handler attached.
RegisterDroneConnection(droneId) ==
    /\ Len(sockets) < MaxSockets
    /\ sockets' = Append(sockets, [droneId |-> droneId, state |-> "open"])
    /\ droneConnections' =
          [d \in DOMAIN droneConnections \cup {droneId} |->
              IF d = droneId THEN Len(sockets) + 1 ELSE droneConnections[d]]
    /\ UNCHANGED <<now, cache, published, pc, req, local, outcome, hist, writes,
                   db, http>>

\* The connection closes: its 'close' handler deletes the Map entry of
\* the drone id it was registered with.
ConnectionClose(k) ==
    /\ k \in 1..Len(sockets)
    /\ sockets[k].state = "open"
    /\ sockets' = [sockets EXCEPT ![k].state = "closed"]
    /\ droneConnections' =
          [d \in DOMAIN droneConnections \ {sockets[k].droneId} |->
              droneConnections[d]]
    /\ UNCHANGED <<now, cache, published, pc, req, local, outcome, hist, writes,
                   db, http>>

NextConnections ==
    \/ \E droneId \in SocketDrones : RegisterDroneConnection(droneId)
    \/ \E k \in 1..MaxSockets : ConnectionClose(k)

SpecConnections == Init /\ [][NextConnections]_vars

\* ================================================================ claims

IsRoutes(c) == pc[c] # "idle" /\ req[c].kind = "optimizeRoutes"
IsUpdate(c) == pc[c] # "idle" /\ req[c].kind = "updateRouteWithRealTimeData"
Finished(c) == pc[c] \in {"done", "failed"}

\* What the caller of call c gets when its optimization result is v.
Returned(c, v) ==
    IF req[c].kind = "optimizeRoutes" THEN RouteResult(v)
    ELSE [kind |-> "result", route |-> v]

\* The shipment ids a result places: in a route or in unassignedShipments.
Placed(result) ==
    UNION {Range(result.routes[r].shipments) : r \in 1..Len(result.routes)}
        \cup Range(result.unassignedShipments)

\* C1: an optimizeRoutes call (at least one shipment, at least one suitable
\* vehicle) whose solver call failed or timed out has returned, without an
\* error, the result of the internal fallback optimizer for its payload,
\* and that result places every shipment of the request.
C1_FallbackOnSolverFailure ==
    \A c \in Calls :
        (IsRoutes(c) /\ hist[c].solver = "error") =>
            /\ pc[c] = "done"
            /\ outcome[c].kind = "result"
            /\ outcome[c] = RouteResult(PerformInternalOptimization(local[c].payload))
            /\ c \in published
            /\ Placed(outcome[c]) = Range(local[c].shipments)

C1_Witness ==
    \E c \in Calls :
        /\ IsRoutes(c) /\ hist[c].solver = "error" /\ pc[c] = "done"
        /\ Len(local[c].shipments) >= 2
        /\ Len(outcome[c].routes) >= 2

\* C2: a call whose cache read is answered while an earlier call's write
\* of the same key is less than 300 s old (hist.expected is the value last
\* written) gets a hit: it returns that value and makes no solver call, so
\* the solver was called by the writer alone.
C2_CachedWithinTTL ==
    \A c \in Calls :
        (hist[c].cacheRead \in {"hit", "miss"} /\ hist[c].expected # None) =>
            /\ hist[c].cacheRead = "hit"
            /\ pc[c] = "done"
            /\ hist[c].solver = "none"
            /\ hist[c].cacheWrite = "none"
            /\ outcome[c] = Returned(c, hist[c].expected)
            /\ \E i \in 1..Len(writes) :
                  /\ writes[i].call # c
                  /\ writes[i].key = local[c].cacheKey
                  /\ writes[i].value = hist[c].expected
                  /\ writes[i].ttl = 300

C2_Witness ==
    \E c \in Calls :
        /\ IsRoutes(c) /\ hist[c].cacheRead = "hit" /\ now > 0
        /\ pc[c] = "done"
        /\ Len(writes) = 1 /\ writes[1].at < now
        /\ Cardinality({d \in Calls : hist[d].solver # "none"}) = 1

\* C3 (as claimed): every evaluation of checkIfReroutingNeeded returns a
\* decision, and the decision is reoptimize whenever a severe incident lies
\* within the buffer, or the weather is storm or blizzard, or visibility is
\* below 200 m, whatever the overallCondition.
C3_Claim ==
    \A c \in Calls :
        (IsUpdate(c) /\ pc[c] # "updConditions" /\ hist[c].eval # None) =>
            LET e == hist[c].eval
                trigger ==
                    \/ \E i \in 1..Len(e.trafficData.incidents) :
                          /\ e.trafficData.incidents[i].severity = "severe"
                          /\ e.trafficData.incidents[i].distanceM < BufferMetres
                    \/ e.weatherData.condition \in {"storm", "blizzard"}
                    \/ e.weatherData.visibility < 200
            IN  /\ e.decision # "threw"
                /\ trigger => e.decision = "reoptimize"

\* C4 (as claimed): under overallCondition severe and no other trigger, the
\* evaluation returns reoptimize exactly when the projected arrival exceeds
\* the committed arrival by more than 30 minutes.
C4_Claim ==
    \A c \in Calls :
        (IsUpdate(c) /\ pc[c] # "updConditions" /\ hist[c].eval # None) =>
            LET e == hist[c].eval
            IN  (/\ e.trafficData.overallCondition = "severe"
                 /\ e.trafficData.incidents = <<>>
                 /\ e.weatherData = Weather("clear", 8000)) =>
                    /\ e.decision # "threw"
                    /\ e.decision = "reoptimize" <=> e.projectedExcess > 30

\* C5 (as claimed): a re-optimization issued by the monitor whose solver
\* call failed still returns a route; no error reaches the caller.
C5_Claim ==
    \A c \in Calls :
        (/\ IsUpdate(c) /\ hist[c].eval # None
         /\ hist[c].eval.decision = "reoptimize"
         /\ hist[c].solver = "error") =>
            /\ pc[c] # "failed"
            /\ Finished(c) => outcome[c].kind = "result"

\* C6 (as claimed): an optimizeRoutes call that missed the cache and
\* returned a result (from the solver or from the fallback) has written
\* that result under the request's key with a TTL of 300 s, and while that
\* is the key's last write and less than 300 s old a read finds it.
C6_Claim ==
    \A c \in Calls :
        (IsRoutes(c) /\ pc[c] = "done" /\ hist[c].cacheRead = "miss") =>
            \E i \in 1..Len(writes) :
                /\ writes[i].call = c
                /\ writes[i].key = local[c].cacheKey
                /\ writes[i].value = local[c].optimizationResult
                /\ writes[i].ttl = 300
                /\ (i = MaxOf(WritesOf(writes[i].key)) /\ now < writes[i].at + 300)
                      => RedisGet(writes[i].key) = local[c].optimizationResult

\* C7 (as claimed): an optimizeRoutes call with shipments and suitable
\* vehicles whose cache read or cache write failed still returns a result.
C7_Claim ==
    \A c \in Calls :
        (/\ IsRoutes(c) /\ Finished(c)
         /\ hist[c].cacheRead = "error" \/ hist[c].cacheWrite = "error") =>
            outcome[c].kind = "result"

\* C8 (as claimed): when the solver call of an optimizeRoutes call
\* succeeded, the routes and metrics returned are those of the solver's
\* response, whatever the cache write did.
C8_Claim ==
    \A c \in Calls :
        (IsRoutes(c) /\ pc[c] = "done" /\ hist[c].solver = "ok") =>
            /\ outcome[c].routes = hist[c].response.routes
            /\ outcome[c].optimizedMetrics = hist[c].response.metrics

\* An optimizeRoutes call that failed before touching cache, solver, Kafka.
FailedEarly(c, message) ==
    /\ pc[c] = "failed"
    /\ outcome[c] = Thrown(message)
    /\ hist[c].cacheRead = "none"
    /\ hist[c].solver = "none"
    /\ hist[c].cacheWrite = "none"
    /\ c \notin published
    /\ \A i \in 1..Len(writes) : writes[i].call # c

NoShipments(c) == FindShipments(req[c].shipmentIds) = <<>>

NoVehicles(c) ==
    /\ ~NoShipments(c)
    /\ FindSuitableVehicles(FindShipments(req[c].shipmentIds)) = <<>>

\* C9: optimizeRoutes fails with an error when no shipment is found for the
\* ids, and when no suitable vehicle exists; in both cases the cache was
\* not read, the solver was not called, nothing was written or published.
C9_EarlyFailures ==
    \A c \in Calls :
        /\ (IsRoutes(c) /\ pc[c] # "findShipments" /\ NoShipments(c)) =>
              FailedEarly(c, "No shipments found for optimization")
        /\ (IsRoutes(c) /\ pc[c] \notin {"findShipments", "findVehicles"}
                /\ NoVehicles(c)) =>
              FailedEarly(c, "No suitable vehicles available for these shipments")

C9_Witness ==
    \E c, d \in Calls :
        /\ IsRoutes(c) /\ NoShipments(c) /\ pc[c] = "failed"
        /\ IsRoutes(d) /\ NoVehicles(d) /\ pc[d] = "failed"

\* C10: the cache holds at most one entry per key and it is, whole, the
\* value last written under the key, kept for 300 s from that write; two
\* optimizeRoutes calls with one key that both missed the cache both
\* complete with a result.
C10_LastWriteWins ==
    /\ \A e1, e2 \in cache : e1.key = e2.key => e1 = e2
    /\ \A e \in cache :
          LET w == WritesOf(e.key)
          IN  /\ w # {}
              /\ e.value = writes[MaxOf(w)].value
              /\ e.expiresAt = writes[MaxOf(w)].at + 300
    /\ \A i \in 1..Len(writes) :
          (/\ i = MaxOf(WritesOf(writes[i].key))
           /\ now < writes[i].at + 300) =>
              RedisGet(writes[i].key) = writes[i].value
    /\ \A c, d \in Calls :
          (/\ c # d /\ IsRoutes(c) /\ IsRoutes(d)
           /\ local[c].cacheKey = local[d].cacheKey
           /\ hist[c].cacheRead = "miss" /\ hist[d].cacheRead = "miss"
           /\ Finished(c) /\ Finished(d)) =>
              outcome[c].kind = "result" /\ outcome[d].kind = "result"

C10_Witness ==
    \E c, d \in Calls :
        /\ c # d /\ IsRoutes(c) /\ IsRoutes(d)
        /\ local[c].cacheKey = local[d].cacheKey
        /\ hist[c].cacheRead = "miss" /\ hist[d].cacheRead = "miss"
        /\ hist[c].solver = "ok" /\ hist[d].solver = "ok"
        /\ pc[c] = "done" /\ pc[d] = "done"
        /\ Len(writes) = 2 /\ writes[1].call = c /\ writes[2].call = d
        /\ hist[c].response # hist[d].response
        /\ RedisGet(local[d].cacheKey) = hist[d].response

\* C11 (as claimed): every invocation that has started eventually returns,
\* with a result or with an error, also when the solver never answers.
C11_Claim == \A c \in Calls : (pc[c] # "idle") ~> Finished(c)

\* The part of it that holds: every optimizeRoutes invocation returns.
RoutesTerminate == \A c \in Calls : IsRoutes(c) ~> Finished(c)

\* The evaluation of call c found no reoptimize trigger, and the conditions
\* are those of the evaluation before it.
SameConditions(c) ==
    /\ IsUpdate(c) /\ pc[c] = "done"
    /\ hist[c].prev # None
    /\ hist[c].eval.decision = "patch"
    /\ hist[c].eval.trafficData = hist[c].prev.eval.trafficData
    /\ hist[c].eval.weatherData = hist[c].prev.eval.weatherData

\* C12 (as claimed): an evaluation with no reoptimize trigger, under the
\* traffic and weather of the evaluation before it, keeps the route: the
\* route returned has the leg durations and the arrival times of the route
\* given.
C12_Claim ==
    \A c \in Calls :
        SameConditions(c) =>
            /\ outcome[c].route.legs = req[c].route.legs
            /\ outcome[c].route.arrivalTime = req[c].route.arrivalTime

\* Call c decided to re-optimize and has called optimizeDeliverySequence.
Reoptimizing(c) == IsUpdate(c) /\ hist[c].eval # None
                     /\ hist[c].eval.decision = "reoptimize"

\* C13: a re-optimization calls optimizeDeliverySequence with the stops of
\* the route, in the route's order, and departureTime = the time of the
\* evaluation, and posts them to the routing API; its cache key is the key
\* of no direct request, so what it returns is the routing API's answer to
\* it (or to a re-optimization of the same instant), never the cached
\* result of the request the route came from; the route object it was
\* given keeps its stops, legs and arrival time.
C13_ReoptimizeAnew ==
    \A c \in Calls :
        Reoptimizing(c) =>
            /\ Len(local[c].stops) = Len(req[c].route.sequence)
            /\ \A i \in 1..Len(local[c].stops) :
                  /\ local[c].stops[i].id = req[c].route.sequence[i].id
                  /\ local[c].stops[i].serviceTime = req[c].route.sequence[i].serviceTime
                  /\ local[c].stops[i].priority = req[c].route.sequence[i].priority
            /\ local[c].options.departureTime = hist[c].eval.at
            /\ local[c].payload # None =>
                  /\ local[c].payload.departureTime = hist[c].eval.at
                  /\ Len(local[c].payload.stops) = Len(req[c].route.sequence)
                  /\ \A i \in 1..Len(local[c].payload.stops) :
                        local[c].payload.stops[i].id = req[c].route.sequence[i].id
            /\ \A i \in 1..Len(writes) :
                  writes[i].key = local[c].cacheKey => Reoptimizing(writes[i].call)
            /\ hist[c].cacheRead = "hit" =>
                  \E d \in Calls \ {c} :
                      /\ Reoptimizing(d) /\ hist[d].eval.at = hist[c].eval.at
                      /\ outcome[c].route = hist[d].response
            /\ (pc[c] = "done" /\ hist[c].cacheRead = "miss") =>
                  /\ hist[c].solver = "ok"
                  /\ outcome[c].route = hist[c].response
                  /\ outcome[c].route.departureTime = hist[c].eval.at
            /\ req[c].route \in LiveRoutes

C13_Witness ==
    \E c, d \in Calls :
        /\ Reoptimizing(c) /\ pc[c] = "done" /\ hist[c].cacheRead = "miss"
        /\ pc[d] = "done" /\ req[d].kind = "optimizeDeliverySequence"
        /\ req[d].stops = local[c].stops
        /\ Len(writes) = 2 /\ writes[1].call = d /\ writes[2].call = c
        /\ RedisGet(local[d].cacheKey) = outcome[d].route
        /\ RedisGet(local[c].cacheKey) = outcome[c].route
        /\ hist[c].eval.at > 0

IsEta(c) == pc[c] = "done" /\ req[c].kind = "calculateETA"

\* C14 (as claimed): calculateETA fails with an invalid-input error for
\* every speed <= 0 instead of returning a timestamp, and for a positive
\* speed returns startTime plus distance / speed hours.
C14_Claim ==
    \A c \in Calls :
        IsEta(c) =>
            IF req[c].averageSpeed <= 0
            THEN outcome[c].kind = "error"
            ELSE /\ outcome[c].kind = "result"
                 /\ outcome[c].value.valid
                 /\ outcome[c].value.time =
                       req[c].startTime
                         + (CalculateDistance(req[c].originPoint,
                                              req[c].destinationPoint) * 3600)
                             \div req[c].averageSpeed

\* What holds of it: the positive speeds.
EtaOfPositiveSpeed ==
    \A c \in Calls :
        (IsEta(c) /\ req[c].averageSpeed > 0) =>
            /\ outcome[c].kind = "result"
            /\ outcome[c].value.valid
            /\ outcome[c].value.time =
                  req[c].startTime
                    + (CalculateDistance(req[c].originPoint,
                                         req[c].destinationPoint) * 3600)
                        \div req[c].averageSpeed

IsServiceTime(c) == pc[c] = "done" /\ req[c].kind = "calculateServiceTime"

\* C15 (as claimed): the service time of a stop is 5 + ceil(weight / 10)
\* + ceil(volume / 0.5) + 3 when a signature is required + 15 when the
\* security level is high or the shipment type is restricted or military;
\* it is at least 5, it is 5 for a stop with none of these and 20 for that
\* stop with security level high.
C15_Claim ==
    \A c \in Calls :
        IsServiceTime(c) =>
            LET stop == req[c].stop
                bare == /\ stop.weight = 0 /\ stop.volume = 0
                        /\ ~stop.requiresSignature
                        /\ stop.shipmentType = "standard"
            IN  /\ outcome[c].value =
                      5 + (stop.weight + 9) \div 10 + (stop.volume + 4) \div 5
                        + (IF stop.requiresSignature THEN 3 ELSE 0)
                        + (IF \/ stop.securityLevel = "high"
                              \/ stop.shipmentType \in {"restricted", "military"}
                           THEN 15 ELSE 0)
                /\ outcome[c].value >= 5
                /\ (bare /\ stop.securityLevel = "standard") => outcome[c].value = 5
                /\ (bare /\ stop.securityLevel = "high") => outcome[c].value = 20

\* What holds of it: the stops whose shipment type is not restricted.
ServiceTimeUnrestricted ==
    \A c \in Calls :
        (IsServiceTime(c) /\ req[c].stop.shipmentType # "restricted") =>
            LET stop == req[c].stop
            IN  outcome[c].value =
                    5 + (stop.weight + 9) \div 10 + (stop.volume + 4) \div 5
                      + (IF stop.requiresSignature THEN 3 ELSE 0)
                      + (IF \/ stop.securityLevel = "high"
                            \/ stop.shipmentType = "military"
                         THEN 15 ELSE 0)

IsDelay(c) == pc[c] = "done" /\ req[c].kind = "delayFactors"

\* The severity of an overall traffic condition of the table.
TrafficRank(condition) ==
    CASE condition = "free_flow" -> 0
      [] condition = "light" -> 1
      [] condition = "moderate" -> 2
      [] condition = "heavy" -> 3
      [] condition = "severe" -> 4
      [] OTHER -> -1

\* Snapshot s differs from snapshot r in one severity input at most, and
\* is at least as severe as r in it.
OneInputWorse(r, s) ==
    LET rw == r.weatherData
        sw == s.weatherData
        rc == r.trafficData.overallCondition
        sc == s.trafficData.overallCondition
    IN  \/ /\ rw = sw
           /\ TrafficRank(rc) >= 0 /\ TrafficRank(rc) <= TrafficRank(sc)
        \/ /\ rc = sc
           /\ [rw EXCEPT !.precipitation = 0] = [sw EXCEPT !.precipitation = 0]
           /\ rw.precipitation <= sw.precipitation
        \/ /\ rc = sc
           /\ [rw EXCEPT !.visibility = 0] = [sw EXCEPT !.visibility = 0]
           /\ rw.visibility >= sw.visibility
        \/ /\ rc = sc
           /\ [rw EXCEPT !.windSpeed = 0] = [sw EXCEPT !.windSpeed = 0]
           /\ rw.windSpeed <= sw.windSpeed

\* C16: the traffic factor is 0.9, 1.0, 1.2, 1.5, 2.0 for free_flow, light,
\* moderate, heavy, severe and 1.0 for any other condition; the overall
\* factor is the traffic factor times the weather factor; and of two
\* snapshots that differ in one severity input (traffic condition,
\* precipitation, visibility, wind speed), the more severe one has the
\* overall factor that is not the smaller.  Factors in tenths,
\* ten-thousandths and hundred-thousandths.
C16_DelayFactorMonotone ==
    /\ \A c \in Calls :
          IsDelay(c) =>
              LET f == outcome[c].value
                  condition == req[c].trafficData.overallCondition
              IN  /\ f.trafficDelayFactor =
                        (CASE condition = "free_flow" -> 9
                           [] condition = "light" -> 10
                           [] condition = "moderate" -> 12
                           [] condition = "heavy" -> 15
                           [] condition = "severe" -> 20
                           [] OTHER -> 10)
                  /\ f.weatherDelayFactor >= 10000
                  /\ f.totalDelayFactor = f.trafficDelayFactor * f.weatherDelayFactor
    /\ \A c, d \in Calls :
          (IsDelay(c) /\ IsDelay(d) /\ OneInputWorse(req[c], req[d])) =>
              outcome[c].value.totalDelayFactor <= outcome[d].value.totalDelayFactor

C16_Witness ==
    \E c, d \in Calls :
        /\ IsDelay(c) /\ IsDelay(d)
        /\ req[d].trafficData = req[c].trafficData
        /\ req[c].trafficData.overallCondition = "severe"
        /\ req[c].weatherData.precipitation = 2
        /\ req[d].weatherData.precipitation = 10
        /\ req[c].weatherData.visibility = 999
        /\ OneInputWorse(req[c], req[d])
        /\ outcome[c].value.totalDelayFactor < outcome[d].value.totalDelayFactor

\* C17 (as claimed): after consecutive patches of a route, every leg's
\* duration is the duration the leg had before the first patch times the
\* overall delay factor of the latest conditions; so a second patch under
\* the conditions of the first leaves the durations of the first.
C17_Claim ==
    \A c \in Calls :
        (/\ IsUpdate(c) /\ pc[c] = "done"
         /\ hist[c].prev # None /\ hist[c].eval.decision = "patch") =>
            LET factor == DelayFactors(hist[c].eval.trafficData,
                                       hist[c].eval.weatherData).totalDelayFactor
                base == hist[c].prev.base.legs
                legs == outcome[c].route.legs
            IN  /\ \A i \in 1..Len(legs) :
                      legs[i].duration = RatScale(base[i].duration, factor, 100000)
                /\ SameConditions(c) =>
                      \A i \in 1..Len(legs) :
                          legs[i].duration = req[c].route.legs[i].duration

IsFallback(c) == pc[c] = "done" /\ req[c].kind = "performInternalOptimization"

\* The index of the group of the i-th shipment of a payload: groups are
\* numbered in the order in which their first shipment comes.
GroupIndex(payload, i) ==
    LET s == payload.shipments
        first == CHOOSE j \in 1..i :
                     /\ GroupKey(s[j]) = GroupKey(s[i])
                     /\ \A k \in 1..(j - 1) : GroupKey(s[k]) # GroupKey(s[i])
    IN  Cardinality({GroupKey(s[k]) : k \in 1..first})

\* The weight capacity of the vehicle of a payload with the given id.
CapacityOf(payload, id) ==
    LET v == CHOOSE k \in 1..Len(payload.vehicles) : payload.vehicles[k].id = id
    IN  payload.vehicles[v].weightCapacity

\* C18: the routes of the fallback take the vehicles in descending
\* weight-capacity order, the largest first and none skipped; the i-th
\* group is the i-th route, so a vehicle gets one group at most; and a
\* shipment is in unassignedShipments exactly when the index of its group
\* is beyond the number of vehicles, and is in its group's route otherwise.
C18_FallbackAssignment ==
    \A c \in Calls :
        IsFallback(c) =>
            LET payload == req[c].payload
                result == outcome[c].value
                routes == result.routes
                used == {routes[g].vehicleId : g \in 1..Len(routes)}
                all == {payload.vehicles[k].id : k \in 1..Len(payload.vehicles)}
                groups == {GroupIndex(payload, i) : i \in 1..Len(payload.shipments)}
            IN  /\ Len(routes) = Min(Cardinality(groups), Len(payload.vehicles))
                /\ Cardinality(used) = Len(routes)
                /\ \A g \in 1..(Len(routes) - 1) :
                      CapacityOf(payload, routes[g].vehicleId)
                          >= CapacityOf(payload, routes[g + 1].vehicleId)
                /\ \A u \in used, v \in all \ used :
                      CapacityOf(payload, u) >= CapacityOf(payload, v)
                /\ \A i \in 1..Len(payload.shipments) :
                      LET id == payload.shipments[i].id
                          g == GroupIndex(payload, i)
                      IN  /\ id \in Range(result.unassignedShipments)
                                <=> g > Len(payload.vehicles)
                          /\ \A r \in 1..Len(routes) :
                                id \in Range(routes[r].shipments)
                                    <=> (r = g /\ g <= Len(payload.vehicles))

C18_Witness ==
    \E c \in Calls :
        /\ IsFallback(c)
        /\ Len(req[c].payload.shipments) = 4
        /\ Len(req[c].payload.vehicles) = 2
        /\ req[c].payload.vehicles[1].weightCapacity
              < req[c].payload.vehicles[2].weightCapacity
        /\ Len(outcome[c].value.routes) = 2
        /\ outcome[c].value.routes[1].vehicleId = req[c].payload.vehicles[2].id
        /\ Len(outcome[c].value.routes[1].shipments) = 2
        /\ Len(outcome[c].value.unassignedShipments) = 1

IsPooling(c) == pc[c] = "done" /\ req[c].kind = "findPoolingCandidates"

\* Metres between the delivery locations of two orders.
Apart(a, b) == Abs(a.deliveryLat - b.deliveryLat) * 1112

\* C19: in the groups findPoolingCandidates returns, every member is within
\* 15 km of the first member of its group, whatever its distance to the
\* other members; an order within 15 km of a group's first member is in
\* that group or in an earlier one; no order is in two groups or twice in
\* one; the members are pending orders; and two calls that are given the
\* same list of pending orders return the same groups.
C19_GroupsAroundFirst ==
    /\ \A c \in Calls :
          IsPooling(c) =>
              LET groups == outcome[c].value
                  orders == local[c].shipments
              IN  /\ \A g \in 1..Len(groups) :
                        /\ Len(groups[g]) >= 2
                        /\ \A m \in 1..Len(groups[g]) :
                              /\ Apart(groups[g][1], groups[g][m]) <= 15000
                              /\ groups[g][m] \in Range(orders)
                        /\ \A o \in Range(orders) :
                              Apart(groups[g][1], o) <= 15000 =>
                                  \E h \in 1..g : o \in Range(groups[h])
                  /\ \A g, h \in 1..Len(groups) :
                        \A m \in 1..Len(groups[g]), n \in 1..Len(groups[h]) :
                            groups[g][m].id = groups[h][n].id => (g = h /\ m = n)
    /\ \A c, d \in Calls :
          (IsPooling(c) /\ IsPooling(d) /\ local[c].shipments = local[d].shipments)
              => outcome[c].value = outcome[d].value

\* Given orders 1, 2, 3 with order 1 first, order 3 (22 km from order 1,
\* 11 km from order 2) stays out of the group of orders 1 and 2; given the
\* same orders with order 2 first, the three are one group.
C19_Witness ==
    \E c, d \in Calls :
        /\ IsPooling(c) /\ IsPooling(d)
        /\ Range(local[c].shipments) = Range(local[d].shipments)
        /\ outcome[c].value = <<<<Order(1), Order(2)>>>>
        /\ Order(3) \in Range(local[c].shipments)
        /\ Apart(Order(2), Order(3)) <= 15000
        /\ outcome[d].value = <<<<Order(2), Order(1), Order(3)>>>>

IsRecalculate(c) == pc[c] = "done" /\ req[c].kind = "recalculateETAs"

\* The route `patched` is `route` re-timed at time `at` (s) under the
\* factor (hundred-thousandths); times are Dates, in whole milliseconds.
Cumulative(route, patched, at, factor) ==
    LET legs == patched.legs
        n == Len(legs)
    IN  /\ n = Len(route.legs)
        /\ legs[1].departureTime = at * 1000
        /\ \A i \in 1..n :
              /\ legs[i].duration = RatScale(route.legs[i].duration, factor, 100000)
              /\ legs[i].arrivalTime =
                    legs[i].departureTime + Floor(RatScale(legs[i].duration, 1000, 1))
        /\ \A i \in 1..(n - 1) :
              legs[i + 1].departureTime =
                  legs[i].arrivalTime + route.sequence[i + 1].serviceTime * 60 * 1000
        /\ patched.arrivalTime = legs[n].arrivalTime
        /\ patched.totalDuration = RatSum([i \in 1..n |-> legs[i].duration])

\* C20: in the route recalculateETAs returns, the first leg departs at the
\* time of the evaluation; every leg lasts its duration in the route given
\* times the overall delay factor and arrives at its departure plus that
\* duration (to the millisecond of a Date); the next leg departs at that
\* arrival plus the service time of the stop reached; the route's
\* arrivalTime is the last leg's arrival and its totalDuration the sum of
\* the adjusted durations.
C20_CumulativeArrivals ==
    \A c \in Calls :
        IsRecalculate(c) =>
            Cumulative(req[c].route, outcome[c].route, req[c].at,
                       DelayFactors(req[c].trafficData,
                                    req[c].weatherData).totalDelayFactor)

C20_Witness ==
    \E c \in Calls :
        /\ IsRecalculate(c)
        /\ req[c].at > 0
        /\ Len(outcome[c].route.legs) = 3
        /\ outcome[c].route.legs[2].duration.d > 1000
        /\ outcome[c].route.legs[3].departureTime
              > outcome[c].route.legs[2].arrivalTime
        /\ outcome[c].route.arrivalTime > req[c].route.arrivalTime + req[c].at * 1000

\* The same of the routes updateRouteWithRealTimeData returns patched.
PatchedByMonitor ==
    \A c \in Calls :
        (IsUpdate(c) /\ pc[c] = "done" /\ hist[c].eval.decision = "patch") =>
            Cumulative(req[c].route, outcome[c].route, hist[c].eval.at,
                       DelayFactors(hist[c].eval.trafficData,
                                    hist[c].eval.weatherData).totalDelayFactor)

\* The payload carries the three secure-routing settings.
PayloadSecured(payload) ==
    /\ "alternateRoutes" \in DOMAIN payload
    /\ "secureRouting" \in DOMAIN payload
    /\ "avoidHighRiskAreas" \in DOMAIN payload
    /\ payload.alternateRoutes = 3
    /\ payload.secureRouting
    /\ payload.avoidHighRiskAreas

\* The request asks for security: a shipment of optimizeRoutes with
\* security level high, or options of optimizeDeliverySequence with
\* security level high or shipment type restricted or military.
RequestSecure(c) ==
    IF IsRoutes(c)
    THEN \E i \in 1..Len(local[c].shipments) :
            ShipmentDoc(local[c].shipments[i]).securityLevel = "high"
    ELSE \/ local[c].options.securityLevel = "high"
         \/ Get(local[c].options, "shipmentType", "undefined")
               \in {"restricted", "military"}

\* C21 (as claimed): every payload built for the solver carries
\* alternateRoutes = 3, secureRouting and avoidHighRiskAreas exactly when
\* the request's security level is high or its shipment type is restricted
\* or military.
C21_Claim ==
    \A c \in Calls :
        local[c].payload # None =>
            (PayloadSecured(local[c].payload) <=> RequestSecure(c))

\* What holds of optimizeDeliverySequence: the settings go with security
\* level high.
SequencePayloadSecured ==
    \A c \in Calls :
        (~IsRoutes(c) /\ local[c].payload # None) =>
            (PayloadSecured(local[c].payload)
                <=> local[c].options.securityLevel = "high")

\* Two shipments of a payload are within 15 km of each other, origin to
\* origin and destination to destination (distances in metres).
Near(a, b) ==
    /\ Abs(a.originLat - b.originLat) * 1112 <= 15000
    /\ Abs(a.destLat - b.destLat) * 1112 <= 15000

\* The shipment of a payload with the given id.
ShipmentOf(payload, id) ==
    payload.shipments[CHOOSE i \in 1..Len(payload.shipments) :
                          payload.shipments[i].id = id]

\* C22 (as claimed): in the fallback's result a route holds the shipments
\* within 15 km of its first shipment: every member of a route is within
\* 15 km of the first, and a shipment within 15 km of the first that no
\* earlier route holds is a member.
C22_Claim ==
    \A c \in Calls :
        IsFallback(c) =>
            LET payload == req[c].payload
                routes == outcome[c].value.routes
            IN  \A r \in 1..Len(routes) :
                    LET first == ShipmentOf(payload, routes[r].shipments[1])
                        earlier == UNION {Range(routes[q].shipments) : q \in 1..(r - 1)}
                    IN  /\ \A id \in Range(routes[r].shipments) :
                              Near(first, ShipmentOf(payload, id))
                        /\ \A i \in 1..Len(payload.shipments) :
                              (/\ Near(first, payload.shipments[i])
                               /\ payload.shipments[i].id \notin earlier)
                                  => payload.shipments[i].id \in Range(routes[r].shipments)

\* What holds: the scenario of the claim.  Shipments 1 and 2 are 1.1 km
\* apart and fall into the same tenth of a degree, shipment 3 is far from
\* both; with two vehicles or more the routes are {1, 2} and {3} and no
\* shipment is unassigned.
ScenarioGroups ==
    \A c \in Calls :
        (/\ IsFallback(c)
         /\ {req[c].payload.shipments[i].id :
                 i \in 1..Len(req[c].payload.shipments)} = {1, 2, 3}
         /\ Len(req[c].payload.vehicles) >= 2) =>
            /\ Len(outcome[c].value.routes) = 2
            /\ {Range(outcome[c].value.routes[r].shipments) : r \in 1..2}
                  = {{1, 2}, {3}}
            /\ outcome[c].value.unassignedShipments = <<>>

\* The orders the value returned by findPoolingCandidates names.
Reported(c) == UNION {Range(outcome[c].value[g]) : g \in 1..Len(outcome[c].value)}

\* C23 (as claimed): findPoolingCandidates reports every order it was
\* given: an order that ends alone is reported too, apart from the groups
\* of several orders, so what is returned covers the whole input, also an
\* input of fewer than two orders.
C23_Claim ==
    \A c \in Calls :
        (IsPooling(c) /\ outcome[c].kind = "result") =>
            \A o \in Range(local[c].shipments) : o \in Reported(c)

\* The last request served marked shipment s delivered, and s was the only
\* entry left in the list of its assigned vehicle v.
LastDelivered(s, v) ==
    /\ http.request # None
    /\ http.request.handler = "updateStatus"
    /\ http.request.status = "delivered"
    /\ http.request.id = s
    /\ http.response.status = 200
    /\ http.before.shipments[s].assignedVehicle = v
    /\ v \in DOMAIN http.before.vehicles
    /\ http.before.vehicles[v].assignedShipments = <<s>>

\* C24 (as claimed): when updateStatus marks a shipment delivered and it
\* was the last entry of its vehicle's assignedShipments, the vehicle's
\* status becomes idle, a status assignVehicle accepts.
C24_Claim ==
    \A s \in DbShipmentIds, v \in DbVehicleIds :
        LastDelivered(s, v) =>
            /\ db.vehicles[v].status = "idle"
            /\ db.vehicles[v].status \in {"idle", "loading"}

\* What holds: the vehicle's list is empty and its status is 'returning'.
DeliveredVehicleReturning ==
    \A s \in DbShipmentIds, v \in DbVehicleIds :
        LastDelivered(s, v) =>
            /\ db.vehicles[v].status = "returning"
            /\ db.vehicles[v].assignedShipments = <<>>

\* The positions of shipment s in the assignedShipments of vehicle v.
Positions(v, s) ==
    {i \in 1..Len(db.vehicles[v].assignedShipments) :
        db.vehicles[v].assignedShipments[i] = s}

\* C28 (as claimed): whatever requests were served, a shipment is in the
\* assignedShipments of one vehicle at most and once at most, that vehicle
\* is the shipment's tracking.assignedVehicle, and a delivered shipment is
\* in no vehicle's list.
C28_Claim ==
    \A s \in DbShipmentIds :
        /\ \A v, w \in DOMAIN db.vehicles :
              (Positions(v, s) # {} /\ Positions(w, s) # {}) => v = w
        /\ \A v \in DOMAIN db.vehicles :
              /\ Cardinality(Positions(v, s)) <= 1
              /\ Positions(v, s) # {} => db.shipments[s].assignedVehicle = v
        /\ db.shipments[s].status = "delivered" =>
              \A v \in DOMAIN db.vehicles : Positions(v, s) = {}

\* How many entries of the array are x.
Occurrences(xs, x) == Cardinality({i \in 1..Len(xs) : xs[i] = x})

RECURSIVE SumOver(_, _)
\* The sum of f over the indices in S.
SumOver(f, S) ==
    IF S = {} THEN 0
    ELSE LET i == CHOOSE x \in S : TRUE IN f[i] + SumOver(f, S \ {i})

\* C25: in the result of the fallback every shipment of the payload is in
\* one place exactly, the shipments list of one route or
\* unassignedShipments, once; the result names no other shipment; and the
\* routes are as many as the groups or, if those are fewer, the vehicles.
C25_EveryShipmentPlacedOnce ==
    \A c \in Calls :
        IsFallback(c) =>
            LET payload == req[c].payload
                result == outcome[c].value
                routes == result.routes
                ids == {payload.shipments[i].id : i \in 1..Len(payload.shipments)}
                keys == {GroupKey(payload.shipments[i]) : i \in 1..Len(payload.shipments)}
                inRoutes(id) ==
                    SumOver([r \in 1..Len(routes) |-> Occurrences(routes[r].shipments, id)],
                            1..Len(routes))
            IN  /\ \A id \in ids :
                      inRoutes(id) + Occurrences(result.unassignedShipments, id) = 1
                /\ \A r \in 1..Len(routes) : Range(routes[r].shipments) \subseteq ids
                /\ Range(result.unassignedShipments) \subseteq ids
                /\ Len(routes) = Min(Cardinality(keys), Len(payload.vehicles))
                /\ result.metrics.routeCount = Len(routes)

\* Four shipments in three groups and one vehicle: one route of two
\* shipments, the two other groups unassigned.
C25_Witness ==
    \E c \in Calls :
        /\ IsFallback(c)
        /\ Len(req[c].payload.shipments) = 4
        /\ Len(req[c].payload.vehicles) = 1
        /\ Len(outcome[c].value.routes) = 1
        /\ Len(outcome[c].value.routes[1].shipments) = 2
        /\ Len(outcome[c].value.unassignedShipments) = 2
        /\ GroupKey(ShipmentOf(req[c].payload, outcome[c].value.unassignedShipments[1]))
              # GroupKey(ShipmentOf(req[c].payload, outcome[c].value.unassignedShipments[2]))

IsStops(c) == pc[c] = "done" /\ req[c].kind = "buildRouteStops"

\* The positions in the stops of the stops of a type for a shipment.
StopsOf(stops, type, id) ==
    {i \in 1..Len(stops) : stops[i].type = type /\ stops[i].shipmentId = id}

\* C27 (as claimed): in the stops buildRouteStops returns the first is the
\* vehicle's start, every shipment's pickup comes before its delivery, and
\* the estimated arrival times do not decrease along the stops, whatever
\* the requested pickup and delivery times.
C27_Claim ==
    \A c \in Calls :
        IsStops(c) =>
            LET stops == outcome[c].value
            IN  /\ stops[1].type = "start"
                /\ stops[1].location = req[c].vehicle.location
                /\ \A s \in Range(req[c].shipments) :
                      \A p \in StopsOf(stops, "pickup", s.id),
                         d \in StopsOf(stops, "delivery", s.id) : p < d
                /\ \A i \in 2..(Len(stops) - 1) :
                      stops[i].estimatedArrival <= stops[i + 1].estimatedArrival

\* What holds: the stops are the start, one pickup and one delivery for
\* each shipment, in the order of their times (the start at the
\* time of the call), and from the second stop on the estimated
\* arrivals do not decrease.
StopsInTimeOrder ==
    \A c \in Calls :
        IsStops(c) =>
            LET stops == outcome[c].value
            IN  /\ Len(stops) = 1 + 2 * Len(req[c].shipments)
                /\ \A s \in Range(req[c].shipments) :
                      /\ Cardinality(StopsOf(stops, "pickup", s.id)) = 1
                      /\ Cardinality(StopsOf(stops, "delivery", s.id)) = 1
                /\ \A i \in 1..(Len(stops) - 1) : stops[i].time <= stops[i + 1].time
                /\ stops[1].estimatedArrival = NoArrival
                /\ \A i \in 2..(Len(stops) - 1) :
                      stops[i].estimatedArrival <= stops[i + 1].estimatedArrival

\* The payload is one optimizeRoutes builds: findSuitableVehicles returns
\* vehicles that can carry the heaviest and the bulkiest shipment.
VehiclesSuitable(payload) ==
    \A v \in 1..Len(payload.vehicles), s \in 1..Len(payload.shipments) :
        /\ payload.vehicles[v].weightCapacity >= payload.shipments[s].weight
        /\ payload.vehicles[v].volumeCapacity >= payload.shipments[s].volume

\* The vehicle of a payload with the given id.
VehicleOf(payload, id) ==
    payload.vehicles[CHOOSE k \in 1..Len(payload.vehicles) :
                         payload.vehicles[k].id = id]

\* C30 (as claimed): in every route of the fallback the weights of the
\* route's shipments sum to no more than the vehicle's weightCapacity and
\* their volumes to no more than its volumeCapacity.
C30_Claim ==
    \A c \in Calls :
        (IsFallback(c) /\ VehiclesSuitable(req[c].payload)) =>
            LET payload == req[c].payload
                routes == outcome[c].value.routes
            IN  \A r \in 1..Len(routes) :
                    LET load == routes[r].shipments
                        vehicle == VehicleOf(payload, routes[r].vehicleId)
                    IN  /\ SumOver([i \in 1..Len(load) |->
                                       ShipmentOf(payload, load[i]).weight],
                                   1..Len(load)) <= vehicle.weightCapacity
                        /\ SumOver([i \in 1..Len(load) |->
                                       ShipmentOf(payload, load[i]).volume],
                                   1..Len(load)) <= vehicle.volumeCapacity

IsAssign(c) == req[c] # None /\ req[c].kind = "assignDroneMission"

\* C26 (as claimed): however the reads and writes of concurrent
\* assignDroneMission and recallDrone calls interleave, the drone has one
\* command at most that is pending or in progress, and the status an
\* assignment overwrites is idle or returning.
C26_Claim ==
    /\ Cardinality(ActiveCommands(DroneId)) <= 1
    /\ \A c \in Calls :
          (IsAssign(c) /\ pc[c] = "done") => local[c].overwrote \in {"idle", "returning"}

\* What holds: the status an assignment read was idle or returning.
AssignReadAvailable ==
    \A c \in Calls :
        (IsAssign(c) /\ pc[c] \in {"commandSave", "droneSave", "done"})
            => local[c].status \in {"idle", "returning"}

\* The connections registered for a drone, by position.
RegisteredFor(droneId) == {k \in 1..Len(sockets) : sockets[k].droneId = droneId}

\* C29 (as claimed): the registry maps a drone id to a connection exactly
\* when the connection registered last for that drone is still open, and
\* then to that connection; the close of a connection that was replaced
\* leaves the newer one registered.
C29_Claim ==
    \A droneId \in SocketDrones :
        LET mine == RegisteredFor(droneId)
        IN  IF mine = {} THEN droneId \notin DOMAIN droneConnections
            ELSE LET last == MaxOf(mine)
                 IN  /\ droneId \in DOMAIN droneConnections
                           <=> sockets[last].state = "open"
                     /\ droneId \in DOMAIN droneConnections
                           => droneConnections[droneId] = last

\* What holds: an entry of the registry is the connection registered last
\* for its drone.
RegistryHoldsLast ==
    \A droneId \in DOMAIN droneConnections :
        /\ RegisteredFor(droneId) # {}
        /\ droneConnections[droneId] = MaxOf(RegisteredFor(droneId))

====
